---- MODULE Spec2Model ----
(***************************************************************************)
(* Host/IMP framer (mini/src/bbn-ncc/imp.c) and the NCP connection engine  *)
(* of waitsconnect (mini/src/waits-ncpd/waitsconnect.c), and the IMP       *)
(* monitor (mini/src/bbn-ncc/ncp.c), a second program over the same framer.*)
(*                                                                         *)
(* Bytes are naturals 0..255, byte arrays are sequences (C index k is      *)
(* element k+1).  Every C function that changes program state is an       *)
(* operator from a machine record m (the statics of both files plus the    *)
(* list of datagrams and console writes produced so far in the current     *)
(* step) to the machine record after the call.                             *)
(***************************************************************************)
EXTENDS Integers, Sequences, FiniteSets, TLC

VARIABLES
    imp,               \* statics of imp.c: rx_sequence, tx_sequence, imp_flags, imp_ready, message
    conn,              \* static struct connection conn
    time_tick,         \* static unsigned long time_tick
    next_data_socket,  \* static uint32_t next_data_socket
    open_fds,          \* console descriptors the process holds open
    pc,                \* position in main(): "start", "imp", "frag", "console", "tick"
    sel_fd,            \* console descriptor placed in rfds by the current select()
    rx,                \* locals of the imp_receive_message call in progress
    sent,              \* datagrams handed to sendto() by the last step, in order
    wrote,             \* write() calls on a console made by the last step, in order
    stats              \* static stats of the monitor (mini/src/bbn-ncc/ncp.c)

vars == <<imp, conn, time_tick, next_data_socket, open_fds, pc, sel_fd, rx, sent, wrote, stats>>

----------------------------------------------------------------------------
(* Bounds of the model *)

MaxTick == 4        \* event-loop iterations explored
MaxPayloadWords == 2 \* framer round trip: payload sizes 0..MaxPayloadWords

----------------------------------------------------------------------------
(* Integer helpers for the C arithmetic *)

W16 == 65536

\* A uint32_t is kept as its two 16-bit halves <<high, low>>, so that the
\* whole range is there and arithmetic wraps as in C.
V32(n) == <<n \div W16, n % W16>>                    \* the constant n
Zero32 == <<0, 0>>
Max32  == <<W16 - 1, W16 - 1>>
Add32(v, k) == LET lo == v[2] + k IN <<(v[1] + lo \div W16) % W16, lo % W16>>
Lt32(a, b) == a[1] < b[1] \/ (a[1] = b[1] /\ a[2] < b[2])
Bytes32(v) == <<v[1] \div 256, v[1] % 256, v[2] \div 256, v[2] % 256>>

Min(a, b) == IF a < b THEN a ELSE b

BitSet(x, b) == (x \div b) % 2 = 1          \* b a power of two
OrBit(x, b)  == IF BitSet(x, b) THEN x ELSE x + b
ClrBit(x, b) == IF BitSet(x, b) THEN x - b ELSE x

\* C index k of a byte array held as a sequence; bytes past the end of what
\* the model materialises read as 0.
At(a, k) == IF k >= 0 /\ k < Len(a) THEN a[k + 1] ELSE 0

From(a, k) == IF k >= Len(a) THEN << >> ELSE SubSeq(a, k + 1, Len(a))

Take(a, k) == IF k >= Len(a) THEN a ELSE SubSeq(a, 1, k)

----------------------------------------------------------------------------
(* imp.c *)

FLAG_LAST  == 1
FLAG_READY == 2

Magic == <<72, 51, 49, 54>>    \* 'H' '3' '1' '6'

\* (a[0] << 24) | (a[1] << 16) | (a[2] << 8) | a[3]
Word32(a) == <<At(a, 0) * 256 + At(a, 1), At(a, 2) * 256 + At(a, 3)>>

\* The 12 bytes imp_send_message writes at data[0..11] for a payload of
\* length words.
Envelope(tx_sequence, imp_flags, length) ==
    Magic \o Bytes32(tx_sequence)
          \o << ((length + 1) \div 256) % 256, (length + 1) % 256 >>
          \o << (imp_flags \div 256) % 256, OrBit(imp_flags, FLAG_LAST) % 256 >>

\* A datagram on the wire: n bytes; hdr is bytes 0..11, data is what follows
\* (data[12..] of the caller's packet).
Datagram(i, payload, length) ==
    [ n    |-> 2 * (length + 1) + 10,
      hdr  |-> Envelope(i.tx_sequence, i.imp_flags, length),
      data |-> payload ]

\* As imp_send_message, but the sequence number written is the one after the
\* increment for every datagram but the first.
imp_send_message_late(m, payload, length) ==
    [ m EXCEPT !.sent = Append(@, [ dg    |-> Datagram([m.imp EXCEPT !.tx_sequence =
                                                           IF @ = Zero32 THEN @ ELSE Add32(@, 1)],
                                                       payload, length),
                                    state |-> m.conn.state,
                                    alloc |-> m.conn.send_allocation ]),
               !.imp.tx_sequence = Add32(@, 1) ]

\* Each datagram is logged together with the connection state and send
\* allocation the engine had at the moment of the sendto() call.
imp_send_message(m, payload, length) ==
    [ m EXCEPT !.sent = Append(@, [ dg    |-> Datagram(m.imp, payload, length),
                                    state |-> m.conn.state,
                                    alloc |-> m.conn.send_allocation ]),
               !.imp.tx_sequence = Add32(@, 1) ]

\* As imp_host_ready, announcing on every call
imp_host_ready_always(m, flag) ==
    IF flag
    THEN imp_send_message([m EXCEPT !.imp.imp_flags = OrBit(@, FLAG_READY)], << >>, 0)
    ELSE imp_send_message([m EXCEPT !.imp.imp_flags = ClrBit(@, FLAG_READY)], << >>, 0)

imp_host_ready(m, flag) ==
    IF flag /\ ~BitSet(m.imp.imp_flags, FLAG_READY)
    THEN imp_send_message([m EXCEPT !.imp.imp_flags = OrBit(@, FLAG_READY)], << >>, 0)
    ELSE IF ~flag /\ BitSet(m.imp.imp_flags, FLAG_READY)
    THEN imp_send_message([m EXCEPT !.imp.imp_flags = ClrBit(@, FLAG_READY)], << >>, 0)
    ELSE m

imp_init(m) ==
    [ m EXCEPT !.imp = [ rx_sequence |-> Zero32, tx_sequence |-> Zero32,
                         imp_flags |-> 0, imp_ready |-> 0, message |-> << >> ] ]


\* Bytes of a datagram as read() returns them.
Wire(d) == d.hdr \o d.data

\* As imp_receive_pass, but a datagram repeating the last accepted sequence
\* number is taken as well (x + 1 < rx_sequence in place of x < rx_sequence).
imp_receive_pass_lax(i, r, d) ==
    LET n     == Len(d)
        msg   == d \o From(i.message, n)
        i0    == [i EXCEPT !.message = Take(msg, 12)]
        x     == Word32(From(msg, 4))
        rx1   == IF x = Zero32 /\ i.rx_sequence # Zero32 THEN x
                 ELSE IF x # i.rx_sequence THEN x ELSE i.rx_sequence
        i1    == [i0 EXCEPT !.rx_sequence = Add32(rx1, 1)]
        wl    == At(msg, 8) * 256 + At(msg, 9)
        len1  == r.length + wl - 1
        fl    == At(msg, 10) * 256 + At(msg, 11)
        rdy   == IF BitSet(fl, FLAG_READY) THEN FLAG_READY ELSE 0
        i2    == IF rdy # i.imp_ready THEN [i1 EXCEPT !.imp_ready = rdy] ELSE i1
        cb    == IF rdy # i.imp_ready THEN Append(r.ready, rdy) ELSE r.ready
    IN  IF n = 0
        THEN [imp |-> i, r |-> r, more |-> FALSE, fault |-> FALSE]
        ELSE IF Take(msg, 4) # Magic
        THEN [imp |-> i0, r |-> r, more |-> FALSE, fault |-> FALSE]
        ELSE IF ~(x = Zero32 /\ i.rx_sequence # Zero32) /\ Lt32(Add32(x, 1), i.rx_sequence)
        THEN [imp |-> i0, r |-> [r EXCEPT !.length = 0], more |-> FALSE, fault |-> FALSE]
        ELSE IF len1 = 0
        THEN [imp |-> i1, r |-> [r EXCEPT !.length = 0], more |-> FALSE, fault |-> FALSE]
        ELSE IF n < 12
        THEN [imp |-> i2, r |-> [r EXCEPT !.length = len1, !.ready = cb],
              more |-> FALSE, fault |-> TRUE]
        ELSE [imp |-> i2,
              r |-> [length |-> len1, data |-> r.data \o From(Take(msg, n), 12), ready |-> cb],
              more |-> ~BitSet(fl, FLAG_LAST), fault |-> FALSE]

\* One pass of imp_receive_message from the label loop: to its return or to
\* the goto.  r holds *length, the bytes copied to the caller's buffer and the
\* arguments of the imp_imp_ready calls made; d is what read() returns.
\* message is static, so bytes a shorter datagram does not overwrite keep
\* their old value; only bytes 0..11 can be read before they are overwritten
\* again, so those are the ones kept.
imp_receive_pass(i, r, d) ==
    LET n     == Len(d)
        msg   == d \o From(i.message, n)
        i0    == [i EXCEPT !.message = Take(msg, 12)]
        x     == Word32(From(msg, 4))
        rx1   == IF x = Zero32 /\ i.rx_sequence # Zero32 THEN x
                 ELSE IF x # i.rx_sequence THEN x ELSE i.rx_sequence
        i1    == [i0 EXCEPT !.rx_sequence = Add32(rx1, 1)]
        wl    == At(msg, 8) * 256 + At(msg, 9)
        len1  == r.length + wl - 1
        fl    == At(msg, 10) * 256 + At(msg, 11)
        rdy   == IF BitSet(fl, FLAG_READY) THEN FLAG_READY ELSE 0
        i2    == IF rdy # i.imp_ready THEN [i1 EXCEPT !.imp_ready = rdy] ELSE i1
        cb    == IF rdy # i.imp_ready THEN Append(r.ready, rdy) ELSE r.ready
    IN  IF n = 0
        THEN [imp |-> i, r |-> r, more |-> FALSE, fault |-> FALSE]
        ELSE IF Take(msg, 4) # Magic
        THEN [imp |-> i0, r |-> r, more |-> FALSE, fault |-> FALSE]
        ELSE IF ~(x = Zero32 /\ i.rx_sequence # Zero32) /\ Lt32(x, i.rx_sequence)
        THEN [imp |-> i0, r |-> [r EXCEPT !.length = 0], more |-> FALSE, fault |-> FALSE]
        ELSE IF len1 = 0
        THEN [imp |-> i1, r |-> [r EXCEPT !.length = 0], more |-> FALSE, fault |-> FALSE]
        ELSE IF n < 12          \* memcpy (data, message + 12, n - 12) with n - 12 < 0
        THEN [imp |-> i2, r |-> [r EXCEPT !.length = len1, !.ready = cb],
              more |-> FALSE, fault |-> TRUE]
        ELSE [imp |-> i2,
              r |-> [length |-> len1, data |-> r.data \o From(Take(msg, n), 12), ready |-> cb],
              more |-> ~BitSet(fl, FLAG_LAST), fault |-> FALSE]

\* Locals of imp_receive_message on entry (*length = 0).
RxStart == [length |-> 0, data |-> << >>, ready |-> << >>]


----------------------------------------------------------------------------
(* ncp.h *)

NCP_NOP == 0
NCP_RTS == 1
NCP_STR == 2
NCP_CLS == 3
NCP_ALL == 4
NCP_ECO == 9
NCP_ERP == 10
NCP_ERR == 11
NCP_RST == 12
NCP_RRP == 13

IMP_REGULAR == 0
IMP_NOP     == 4
IMP_RFNM    == 5
IMP_DEAD    == 7
IMP_RESET   == 10

OLD_TELNET == 1
NEW_TELNET == 23

OMARK == 128
OHIDE == 133

IAC  == 255
DONT == 254
DO   == 253
WONT == 252
WILL == 251
EC   == 247

----------------------------------------------------------------------------
(* waitsconnect.c: state *)

ConnStates == {"CLOSED", "LISTENING", "ICP_PHASE1", "ICP_PHASE2", "ESTABLISHED", "CLOSING"}

OutputBufferSize == 8000    \* sizeof conn.output_buffer
MaxDataMessage   == 100     \* bytes per data message, and sizeof buffer in handle_console_input
SendLink         == 45      \* conn.data_send_link chosen in handle_all
FirstDataSocket  == 100     \* initial next_data_socket
LoginDelay       == 1
CloseDelay       == 3

\* The console bytes held in conn.output_buffer are never inspected, only
\* copied, so the buffer is kept as the list of runs of console input it
\* holds: run [t, off, n] is bytes off .. off+n-1 of the read made at tick t.
RECURSIVE RunsLen(_)
RunsLen(b) == IF b = << >> THEN 0 ELSE b[1].n + RunsLen(Tail(b))

RECURSIVE RunsTake(_, _)
RunsTake(b, k) ==
    IF k = 0 \/ b = << >> THEN << >>
    ELSE IF b[1].n <= k THEN <<b[1]>> \o RunsTake(Tail(b), k - b[1].n)
    ELSE << [b[1] EXCEPT !.n = k] >>

RECURSIVE RunsDrop(_, _)
RunsDrop(b, k) ==
    IF k = 0 \/ b = << >> THEN b
    ELSE IF b[1].n <= k THEN RunsDrop(Tail(b), k - b[1].n)
    ELSE << [b[1] EXCEPT !.off = @ + k, !.n = @ - k] >> \o Tail(b)

\* struct connection with every byte zero (static storage, and memset in main)
ZeroConn ==
    [ state |-> "CLOSED", protocol |-> "OLD", remote_host |-> 0,
      listen_socket |-> Zero32, icp_remote_socket |-> Zero32, icp_link |-> 0,
      data_socket |-> Zero32,
      data_recv_local |-> Zero32, data_recv_remote |-> Zero32, data_recv_link |-> 0,
      data_send_local |-> Zero32, data_send_remote |-> Zero32, data_send_link |-> 0,
      got_str |-> 0, got_rts |-> 0,
      send_allocation |-> 0, last_all_time |-> 0,
      output_buffer |-> << >>, output_buffer_len |-> 0,
      console_fd |-> 0, console_close_time |-> 0, console_login_time |-> 0,
      iac_state |-> 0, iac_cmd |-> 0 ]

----------------------------------------------------------------------------
insert_socket(sock) == Bytes32(sock)
extract_socket(data) == Word32(data)

(* waitsconnect.c: outbound messages.  The payload handed to               *)
(* imp_send_message is kept as the fields the function stores in packet:   *)
(* 1822 leader (type, host, link), NCP header (bytesize, count), opcode    *)
(* (-1 when the message has none) and the operands in the order written.   *)

Packet(type, host, link, bytesize, count, op, args) ==
    [ type |-> type, host |-> host, link |-> link, bytesize |-> bytesize,
      count |-> count, op |-> op, args |-> args ]

send_nop(m) ==
    imp_send_message(m, Packet(IMP_NOP, 0, 0, -1, -1, -1, << >>), 2)

\* As send_rrp, addressed to the host of the connection
send_rrp_remote(m, host) ==
    imp_send_message(m, Packet(IMP_REGULAR, m.conn.remote_host, 0, 8, 1, NCP_RRP, << >>), 5)

send_rrp(m, host) ==
    imp_send_message(m, Packet(IMP_REGULAR, host, 0, 8, 1, NCP_RRP, << >>), 5)

send_rts(m, host, lsock, rsock, link) ==
    imp_send_message(m, Packet(IMP_REGULAR, host, 0, 8, 10, NCP_RTS,
                               <<lsock, rsock, link>>), 10)

\* As send_str, with the two sockets in the other order
send_str_swapped(m, host, lsock, rsock, size) ==
    imp_send_message(m, Packet(IMP_REGULAR, host, 0, 8, 10, NCP_STR,
                               <<rsock, lsock, size>>), 10)

send_str(m, host, lsock, rsock, size) ==
    imp_send_message(m, Packet(IMP_REGULAR, host, 0, 8, 10, NCP_STR,
                               <<lsock, rsock, size>>), 10)

send_cls(m, host, lsock, rsock) ==
    imp_send_message(m, Packet(IMP_REGULAR, host, 0, 8, 9, NCP_CLS,
                               <<lsock, rsock>>), 9)

send_all(m, host, link, messages, bits) ==
    LET m1 == imp_send_message(m, Packet(IMP_REGULAR, host, 0, 8, 8, NCP_ALL,
                                         <<link, messages % W16, V32(bits)>>), 9)
    IN  [m1 EXCEPT !.conn.last_all_time = m.time_tick]

\* As send_socket_number, on the control link
send_socket_number_control(m, host, link, socket) ==
    imp_send_message(m, Packet(IMP_REGULAR, host, 0, 32, 1, -1, <<socket>>), 7)

send_socket_number(m, host, link, socket) ==
    imp_send_message(m, Packet(IMP_REGULAR, host, link, 32, 1, -1, <<socket>>), 7)

\* As send_data, without the decrement of send_allocation
send_data_free(m, host, link, data, len) ==
    LET len1 == IF len > MaxDataMessage THEN MaxDataMessage ELSE len
    IN  imp_send_message(m, Packet(IMP_REGULAR, host, link, 8, len1, -1,
                                   RunsTake(data, len1)),
                         5 + (len1 + 1) \div 2)

\* data is the list of runs at the head of the output buffer
send_data(m, host, link, data, len) ==
    LET len1 == IF len > MaxDataMessage THEN MaxDataMessage ELSE len
        m1   == imp_send_message(m, Packet(IMP_REGULAR, host, link, 8, len1, -1,
                                           RunsTake(data, len1)),
                                 5 + (len1 + 1) \div 2)
    IN  [m1 EXCEPT !.conn.send_allocation = @ - 1]


----------------------------------------------------------------------------
(* waitsconnect.c: console *)

MaxFd == 2     \* console descriptors the process can hold open at once

Logout == <<108, 111, 103, 111, 117, 116, 13, 10>>   \* "logout\r\n"
Login  == <<108, 111, 103, 105, 110, 13>>            \* "login\r"

write(m, fd, bytes) == [m EXCEPT !.wrote = Append(@, [fd |-> fd, bytes |-> bytes])]

FreeFds(m) == (1 .. MaxFd) \ m.open_fds

\* connect_to_console: the lowest free descriptor, or -1 when the console
\* refuses the connection or no descriptor is left.  Yields <<m, fd>>.
connect_to_console(m) ==
    IF m.console_up /\ FreeFds(m) # {}
    THEN LET fd == CHOOSE f \in FreeFds(m) : \A g \in FreeFds(m) : f <= g
         IN  << [m EXCEPT !.open_fds = @ \cup {fd}], fd >>
    ELSE << m, -1 >>

disconnect_console(m) ==
    IF m.conn.console_fd >= 0
    THEN [m EXCEPT !.open_fds = @ \ {m.conn.console_fd}, !.conn.console_fd = -1]
    ELSE m

----------------------------------------------------------------------------
(* waitsconnect.c: handlers of inbound NCP opcodes; data is the message    *)
(* from the byte after the opcode                                          *)

\* The block both handle_rts and handle_str run once got_str and got_rts are set.
Establish(m) ==
    LET c   == connect_to_console([m EXCEPT !.conn.state = "ESTABLISHED"])
        m1  == [c[1] EXCEPT !.conn.console_fd = c[2]]
    IN  IF c[2] < 0
        THEN LET m2 == send_cls(m1, m1.conn.remote_host, m1.conn.data_send_local,
                                m1.conn.data_send_remote)
                 m3 == send_cls(m2, m2.conn.remote_host, m2.conn.data_recv_local,
                                m2.conn.data_recv_remote)
             IN  [m3 EXCEPT !.conn.state = "LISTENING"]
        ELSE [m1 EXCEPT !.conn.console_login_time = m1.time_tick + LoginDelay]

\* As handle_rts, refusing with a CLS an RTS that comes in ICP_PHASE1 or ESTABLISHED
handle_rts_refuse(m, source, data) ==
    LET remote_sock == extract_socket(data)
        local_sock  == extract_socket(From(data, 4))
        link        == At(data, 8)
    IN  IF m.conn.state = "LISTENING"
        THEN IF local_sock # V32(OLD_TELNET) /\ local_sock # V32(NEW_TELNET)
             THEN send_cls(m, source, local_sock, remote_sock)
             ELSE send_str([m EXCEPT !.conn.state = "ICP_PHASE1",
                                     !.conn.remote_host = source,
                                     !.conn.listen_socket = local_sock,
                                     !.conn.icp_remote_socket = remote_sock,
                                     !.conn.icp_link = link,
                                     !.conn.protocol =
                                         IF local_sock = V32(OLD_TELNET) THEN "OLD" ELSE "NEW"],
                           source, local_sock, remote_sock, 32)
        ELSE IF m.conn.state = "ICP_PHASE2"
        THEN IF local_sock # m.conn.data_send_local
             THEN m
             ELSE LET m1 == [m EXCEPT !.conn.data_send_remote = remote_sock,
                                      !.conn.data_recv_link = link,
                                      !.conn.got_rts = 1]
                  IN  IF m1.conn.got_str # 0 /\ m1.conn.got_rts # 0
                      THEN Establish(m1)
                      ELSE m1
        ELSE send_cls(m, source, local_sock, remote_sock)

handle_rts(m, source, data) ==
    LET remote_sock == extract_socket(data)
        local_sock  == extract_socket(From(data, 4))
        link        == At(data, 8)
    IN  IF m.conn.state = "LISTENING"
        THEN IF local_sock # V32(OLD_TELNET) /\ local_sock # V32(NEW_TELNET)
             THEN send_cls(m, source, local_sock, remote_sock)
             ELSE send_str([m EXCEPT !.conn.state = "ICP_PHASE1",
                                     !.conn.remote_host = source,
                                     !.conn.listen_socket = local_sock,
                                     !.conn.icp_remote_socket = remote_sock,
                                     !.conn.icp_link = link,
                                     !.conn.protocol =
                                         IF local_sock = V32(OLD_TELNET) THEN "OLD" ELSE "NEW"],
                           source, local_sock, remote_sock, 32)
        ELSE IF m.conn.state = "ICP_PHASE2"
        THEN IF local_sock # m.conn.data_send_local
             THEN m
             ELSE LET m1 == [m EXCEPT !.conn.data_send_remote = remote_sock,
                                      !.conn.data_recv_link = link,
                                      !.conn.got_rts = 1]
                  IN  IF m1.conn.got_str # 0 /\ m1.conn.got_rts # 0
                      THEN Establish(m1)
                      ELSE m1
        ELSE m

\* As handle_str, establishing the connection without looking at got_rts
handle_str_eager(m, source, data) ==
    LET remote_sock == extract_socket(data)
        local_sock  == extract_socket(From(data, 4))
    IN  IF m.conn.state = "ICP_PHASE2"
        THEN IF local_sock # m.conn.data_recv_local
             THEN m
             ELSE Establish([m EXCEPT !.conn.data_recv_remote = remote_sock,
                                      !.conn.got_str = 1])
        ELSE m

handle_str(m, source, data) ==
    LET remote_sock == extract_socket(data)
        local_sock  == extract_socket(From(data, 4))
    IN  IF m.conn.state = "ICP_PHASE2"
        THEN IF local_sock # m.conn.data_recv_local
             THEN m
             ELSE LET m1 == [m EXCEPT !.conn.data_recv_remote = remote_sock,
                                      !.conn.got_str = 1]
                  IN  IF m1.conn.got_str # 0 /\ m1.conn.got_rts # 0
                      THEN Establish(m1)
                      ELSE m1
        ELSE m

\* As handle_cls, answering with the CLS of the send socket only
handle_cls_single(m, source, data) ==
    LET local_sock == extract_socket(From(data, 4))
    IN  IF m.conn.state = "CLOSED" \/ m.conn.state = "LISTENING"
        THEN m
        ELSE IF m.conn.state = "ICP_PHASE2" /\ local_sock = m.conn.listen_socket
        THEN m
        ELSE LET m1 == IF m.conn.console_fd >= 0
                       THEN [write(m, m.conn.console_fd, Logout)
                                EXCEPT !.conn.console_close_time = m.time_tick + CloseDelay]
                       ELSE m
                 m2 == IF m1.conn.state = "ESTABLISHED" \/ m1.conn.state = "ICP_PHASE2"
                       THEN send_cls(m1, source, m1.conn.data_send_local,
                                     m1.conn.data_send_remote)
                       ELSE m1
             IN  [m2 EXCEPT !.conn.state = "LISTENING"]

\* As handle_cls, without the exception for the CLS of the ICP
handle_cls_icp(m, source, data) ==
    LET local_sock == extract_socket(From(data, 4))
    IN  IF m.conn.state = "CLOSED" \/ m.conn.state = "LISTENING"
        THEN m
        ELSE LET m1 == IF m.conn.console_fd >= 0
                       THEN [write(m, m.conn.console_fd, Logout)
                                EXCEPT !.conn.console_close_time = m.time_tick + CloseDelay]
                       ELSE m
                 m2 == IF m1.conn.state = "ESTABLISHED" \/ m1.conn.state = "ICP_PHASE2"
                       THEN send_cls(send_cls(m1, source, m1.conn.data_send_local,
                                              m1.conn.data_send_remote),
                                     source, m1.conn.data_recv_local,
                                     m1.conn.data_recv_remote)
                       ELSE m1
             IN  [m2 EXCEPT !.conn.state = "LISTENING"]

\* As handle_cls, without arming the close timer
handle_cls_no_timer(m, source, data) ==
    LET local_sock == extract_socket(From(data, 4))
    IN  IF m.conn.state = "CLOSED" \/ m.conn.state = "LISTENING"
        THEN m
        ELSE IF m.conn.state = "ICP_PHASE2" /\ local_sock = m.conn.listen_socket
        THEN m
        ELSE LET m1 == IF m.conn.console_fd >= 0
                       THEN write(m, m.conn.console_fd, Logout)
                       ELSE m
                 m2 == IF m1.conn.state = "ESTABLISHED" \/ m1.conn.state = "ICP_PHASE2"
                       THEN send_cls(send_cls(m1, source, m1.conn.data_send_local,
                                              m1.conn.data_send_remote),
                                     source, m1.conn.data_recv_local,
                                     m1.conn.data_recv_remote)
                       ELSE m1
             IN  [m2 EXCEPT !.conn.state = "LISTENING"]

handle_cls(m, source, data) ==
    LET local_sock == extract_socket(From(data, 4))
    IN  IF m.conn.state = "CLOSED" \/ m.conn.state = "LISTENING"
        THEN m
        ELSE IF m.conn.state = "ICP_PHASE2" /\ local_sock = m.conn.listen_socket
        THEN m
        ELSE LET m1 == IF m.conn.console_fd >= 0
                       THEN [write(m, m.conn.console_fd, Logout)
                                EXCEPT !.conn.console_close_time = m.time_tick + CloseDelay]
                       ELSE m
                 m2 == IF m1.conn.state = "ESTABLISHED" \/ m1.conn.state = "ICP_PHASE2"
                       THEN send_cls(send_cls(m1, source, m1.conn.data_send_local,
                                              m1.conn.data_send_remote),
                                     source, m1.conn.data_recv_local,
                                     m1.conn.data_recv_remote)
                       ELSE m1
             IN  [m2 EXCEPT !.conn.state = "LISTENING"]

RECURSIVE flush_output_buffer(_)
flush_output_buffer(m) ==
    IF m.conn.output_buffer_len > 0 /\ m.conn.send_allocation > 0
    THEN LET to_send == IF m.conn.output_buffer_len > MaxDataMessage
                        THEN MaxDataMessage ELSE m.conn.output_buffer_len
             m1 == send_data(m, m.conn.remote_host, m.conn.data_send_link,
                             m.conn.output_buffer, to_send)
         IN  flush_output_buffer(
                 [m1 EXCEPT !.conn.output_buffer_len = @ - to_send,
                            !.conn.output_buffer = RunsDrop(@, to_send)])
    ELSE m

\* As handle_all, without the advance of next_data_socket
handle_all_reuse(m, source, data) ==
    LET link     == At(data, 0)
        messages == At(data, 1) * 256 + At(data, 2)
    IN  IF m.conn.state = "ICP_PHASE1"
        THEN IF link # m.conn.icp_link
             THEN m
             ELSE LET m1 == [m EXCEPT !.conn.data_socket = m.next_data_socket,
                                      !.conn.data_recv_local = m.next_data_socket,
                                      !.conn.data_send_local = Add32(m.next_data_socket, 1),
                                      !.conn.data_send_link = SendLink,
                                      !.conn.got_str = 0,
                                      !.conn.got_rts = 0]
                      m2 == send_socket_number(m1, source, m1.conn.icp_link, m1.conn.data_socket)
                      m3 == send_cls(m2, source, m2.conn.listen_socket, m2.conn.icp_remote_socket)
                      m4 == send_str(m3, source, m3.conn.data_send_local,
                                     Add32(m3.conn.icp_remote_socket, 2), 8)
                      m5 == send_rts(m4, source, m4.conn.data_recv_local,
                                     Add32(m4.conn.icp_remote_socket, 3), m4.conn.data_send_link)
                  IN  [m5 EXCEPT !.conn.state = "ICP_PHASE2"]
        ELSE IF m.conn.state = "ESTABLISHED"
        THEN IF link # m.conn.data_send_link
             THEN m
             ELSE flush_output_buffer([m EXCEPT !.conn.send_allocation = @ + messages])
        ELSE m

\* As handle_all, without the flush after the allocation is raised
handle_all_noflush(m, source, data) ==
    LET link     == At(data, 0)
        messages == At(data, 1) * 256 + At(data, 2)
    IN  IF m.conn.state = "ICP_PHASE1"
        THEN IF link # m.conn.icp_link
             THEN m
             ELSE LET m1 == [m EXCEPT !.conn.data_socket = m.next_data_socket,
                                      !.next_data_socket = Add32(@, 2),
                                      !.conn.data_recv_local = m.next_data_socket,
                                      !.conn.data_send_local = Add32(m.next_data_socket, 1),
                                      !.conn.data_send_link = SendLink,
                                      !.conn.got_str = 0,
                                      !.conn.got_rts = 0]
                      m2 == send_socket_number(m1, source, m1.conn.icp_link, m1.conn.data_socket)
                      m3 == send_cls(m2, source, m2.conn.listen_socket, m2.conn.icp_remote_socket)
                      m4 == send_str(m3, source, m3.conn.data_send_local,
                                     Add32(m3.conn.icp_remote_socket, 2), 8)
                      m5 == send_rts(m4, source, m4.conn.data_recv_local,
                                     Add32(m4.conn.icp_remote_socket, 3), m4.conn.data_send_link)
                  IN  [m5 EXCEPT !.conn.state = "ICP_PHASE2"]
        ELSE IF m.conn.state = "ESTABLISHED"
        THEN IF link # m.conn.data_send_link
             THEN m
             ELSE [m EXCEPT !.conn.send_allocation = @ + messages]
        ELSE m

handle_all(m, source, data) ==
    LET link     == At(data, 0)
        messages == At(data, 1) * 256 + At(data, 2)
    IN  IF m.conn.state = "ICP_PHASE1"
        THEN IF link # m.conn.icp_link
             THEN m
             ELSE LET m1 == [m EXCEPT !.conn.data_socket = m.next_data_socket,
                                      !.next_data_socket = Add32(@, 2),
                                      !.conn.data_recv_local = m.next_data_socket,
                                      !.conn.data_send_local = Add32(m.next_data_socket, 1),
                                      !.conn.data_send_link = SendLink,
                                      !.conn.got_str = 0,
                                      !.conn.got_rts = 0]
                      m2 == send_socket_number(m1, source, m1.conn.icp_link, m1.conn.data_socket)
                      m3 == send_cls(m2, source, m2.conn.listen_socket, m2.conn.icp_remote_socket)
                      m4 == send_str(m3, source, m3.conn.data_send_local,
                                     Add32(m3.conn.icp_remote_socket, 2), 8)
                      m5 == send_rts(m4, source, m4.conn.data_recv_local,
                                     Add32(m4.conn.icp_remote_socket, 3), m4.conn.data_send_link)
                  IN  [m5 EXCEPT !.conn.state = "ICP_PHASE2"]
        ELSE IF m.conn.state = "ESTABLISHED"
        THEN IF link # m.conn.data_send_link
             THEN m
             ELSE flush_output_buffer([m EXCEPT !.conn.send_allocation = @ + messages])
        ELSE m


----------------------------------------------------------------------------
(* waitsconnect.c: inbound data and the telnet variants *)

RECURSIVE old_telnet_from(_, _, _, _)
old_telnet_from(m, data, len, i) ==
    IF i >= len THEN m
    ELSE LET byte == At(data, i)
             fd   == m.conn.console_fd
         IN  IF byte = 0
             THEN old_telnet_from(m, data, len, i + 1)
             ELSE IF byte = 13
             THEN IF i + 1 < len
                  THEN IF At(data, i + 1) = 0
                       THEN old_telnet_from(write(m, fd, <<13>>), data, len, i + 2)
                       ELSE IF At(data, i + 1) = 10
                       THEN old_telnet_from(write(m, fd, <<13, 10>>), data, len, i + 2)
                       ELSE old_telnet_from(write(m, fd, <<13, 10>>), data, len, i + 1)
                  ELSE old_telnet_from(write(m, fd, <<13, 10>>), data, len, i + 1)
             ELSE IF byte >= OMARK /\ byte <= OHIDE
             THEN old_telnet_from(m, data, len, i + 1)
             ELSE IF byte < 128
             THEN old_telnet_from(write(m, fd, <<byte>>), data, len, i + 1)
             ELSE old_telnet_from(m, data, len, i + 1)

process_old_telnet(m, data, len) == old_telnet_from(m, data, len, 0)

RECURSIVE new_telnet_from(_, _, _, _)
new_telnet_from(m, data, len, i) ==
    IF i >= len THEN m
    ELSE LET byte == At(data, i)
             fd   == m.conn.console_fd
             m1   ==
               IF m.conn.iac_state = 0
               THEN IF byte = IAC
                    THEN [m EXCEPT !.conn.iac_state = 1]
                    ELSE write(m, fd, <<byte>>)
               ELSE IF m.conn.iac_state = 1
               THEN IF byte = IAC
                    THEN [write(m, fd, <<byte>>) EXCEPT !.conn.iac_state = 0]
                    ELSE IF byte \in {DO, DONT, WILL, WONT}
                    THEN [m EXCEPT !.conn.iac_cmd = byte, !.conn.iac_state = 2]
                    ELSE IF byte = EC
                    THEN [write(m, fd, <<8, 32, 8>>) EXCEPT !.conn.iac_state = 0]
                    ELSE [m EXCEPT !.conn.iac_state = 0]
               ELSE IF m.conn.iac_state = 2
               THEN [m EXCEPT !.conn.iac_state = 0]
               ELSE m
         IN  new_telnet_from(m1, data, len, i + 1)

process_new_telnet(m, data, len) == new_telnet_from(m, data, len, 0)

\* As handle_data, taking data on any link
handle_data_any_link(m, source, link, data, len) ==
    IF m.conn.state # "ESTABLISHED" THEN m
    ELSE LET m1 == IF m.conn.protocol = "OLD"
                   THEN process_old_telnet(m, data, len)
                   ELSE process_new_telnet(m, data, len)
         IN  send_all(m1, m1.conn.remote_host, m1.conn.data_recv_link, 10, 16000)

handle_data(m, source, link, data, len) ==
    IF m.conn.state # "ESTABLISHED" THEN m
    ELSE IF link # m.conn.data_recv_link THEN m
    ELSE LET m1 == IF m.conn.protocol = "OLD"
                   THEN process_old_telnet(m, data, len)
                   ELSE process_new_telnet(m, data, len)
         IN  send_all(m1, m1.conn.remote_host, m1.conn.data_recv_link, 10, 16000)

----------------------------------------------------------------------------
(* waitsconnect.c: process_ncp, handle_imp *)

\* The while loop of process_ncp from index i.
RECURSIVE ncp_from(_, _, _, _, _)
ncp_from(m, source, data, count, i) ==
    IF i >= count THEN m
    ELSE LET opcode == At(data, i)
             j      == i + 1
         IN  IF opcode = NCP_NOP THEN ncp_from(m, source, data, count, j)
             ELSE IF opcode = NCP_RTS
             THEN ncp_from(handle_rts(m, source, From(data, j)), source, data, count, j + 9)
             ELSE IF opcode = NCP_STR
             THEN ncp_from(handle_str(m, source, From(data, j)), source, data, count, j + 9)
             ELSE IF opcode = NCP_CLS
             THEN ncp_from(handle_cls(m, source, From(data, j)), source, data, count, j + 8)
             ELSE IF opcode = NCP_ALL
             THEN ncp_from(handle_all(m, source, From(data, j)), source, data, count, j + 7)
             ELSE IF opcode = NCP_RST
             THEN ncp_from(send_rrp(m, source), source, data, count, j)
             ELSE IF opcode = NCP_RRP THEN ncp_from(m, source, data, count, j)
             ELSE IF opcode = NCP_ECO THEN ncp_from(m, source, data, count, j)
             ELSE m      \* NCP_ERR and unknown opcodes: return

\* As the loop of process_ncp, but going on to the next byte after an unknown opcode
RECURSIVE ncp_skip_from(_, _, _, _, _)
ncp_skip_from(m, source, data, count, i) ==
    IF i >= count THEN m
    ELSE LET opcode == At(data, i)
             j      == i + 1
         IN  IF opcode = NCP_RTS
             THEN ncp_skip_from(handle_rts(m, source, From(data, j)), source, data, count, j + 9)
             ELSE IF opcode = NCP_STR
             THEN ncp_skip_from(handle_str(m, source, From(data, j)), source, data, count, j + 9)
             ELSE IF opcode = NCP_CLS
             THEN ncp_skip_from(handle_cls(m, source, From(data, j)), source, data, count, j + 8)
             ELSE IF opcode = NCP_ALL
             THEN ncp_skip_from(handle_all(m, source, From(data, j)), source, data, count, j + 7)
             ELSE IF opcode = NCP_RST
             THEN ncp_skip_from(send_rrp(m, source), source, data, count, j)
             ELSE IF opcode = NCP_ERR THEN m
             ELSE ncp_skip_from(m, source, data, count, j)

process_ncp_skip(m, source, data, count) == ncp_skip_from(m, source, data, count, 0)

process_ncp(m, source, data, count) == ncp_from(m, source, data, count, 0)

\* As handle_imp, answering a RESET with two NOPs
handle_imp_two_nops(m, packet) ==
    LET type   == At(packet, 0) % 16
        source == At(packet, 1)
        link   == At(packet, 2)
        count  == At(packet, 6) * 256 + At(packet, 7)
    IN  IF type = IMP_REGULAR
        THEN IF link = 0
             THEN process_ncp(m, source, From(packet, 9), count)
             ELSE handle_data(m, source, link, From(packet, 9), count)
        ELSE IF type = IMP_RESET
        THEN send_nop(send_nop(m))
        ELSE m

\* handle_imp after imp_receive_message has returned a non-zero length
handle_imp(m, packet) ==
    LET type   == At(packet, 0) % 16
        source == At(packet, 1)
        link   == At(packet, 2)
        count  == At(packet, 6) * 256 + At(packet, 7)
    IN  IF type = IMP_REGULAR
        THEN IF link = 0
             THEN process_ncp(m, source, From(packet, 9), count)
             ELSE handle_data(m, source, link, From(packet, 9), count)
        ELSE IF type = IMP_RESET
        THEN send_nop(send_nop(send_nop(m)))
        ELSE m

----------------------------------------------------------------------------
(* waitsconnect.c: console input and timers *)

\* As handle_console_input, keeping of a read that does not fit the part that does
handle_console_input_partial(m, n) ==
    IF m.conn.console_close_time > 0 THEN m
    ELSE IF m.conn.console_login_time > 0 THEN m
    ELSE IF n <= 0
    THEN LET m1 == disconnect_console(m)
             m2 == send_cls(m1, m1.conn.remote_host, m1.conn.data_send_local,
                            m1.conn.data_send_remote)
             m3 == send_cls(m2, m2.conn.remote_host, m2.conn.data_recv_local,
                            m2.conn.data_recv_remote)
         IN  [m3 EXCEPT !.conn.state = "LISTENING"]
    ELSE LET k  == Min(n, OutputBufferSize - m.conn.output_buffer_len)
             m1 == IF k > 0
                   THEN [m EXCEPT !.conn.output_buffer =
                                      Append(@, [t |-> m.time_tick, off |-> 0, n |-> k]),
                                  !.conn.output_buffer_len = @ + k]
                   ELSE m
         IN  flush_output_buffer(m1)

\* As handle_console_input, acting on end of file during the login delay
handle_console_input_login_eof(m, n) ==
    IF m.conn.console_close_time > 0 THEN m
    ELSE IF m.conn.console_login_time > 0 /\ n > 0 THEN m
    ELSE IF n <= 0
    THEN LET m1 == disconnect_console(m)
             m2 == send_cls(m1, m1.conn.remote_host, m1.conn.data_send_local,
                            m1.conn.data_send_remote)
             m3 == send_cls(m2, m2.conn.remote_host, m2.conn.data_recv_local,
                            m2.conn.data_recv_remote)
         IN  [m3 EXCEPT !.conn.state = "LISTENING"]
    ELSE LET m1 == IF m.conn.output_buffer_len + n <= OutputBufferSize
                   THEN [m EXCEPT !.conn.output_buffer =
                                      Append(@, [t |-> m.time_tick, off |-> 0, n |-> n]),
                                  !.conn.output_buffer_len = @ + n]
                   ELSE m
         IN  flush_output_buffer(m1)

\* n is the result of read(): <= 0 for end of file or error, else the number
\* of bytes read at tick m.time_tick.
handle_console_input(m, n) ==
    IF m.conn.console_close_time > 0 THEN m
    ELSE IF m.conn.console_login_time > 0 THEN m
    ELSE IF n <= 0
    THEN LET m1 == disconnect_console(m)
             m2 == send_cls(m1, m1.conn.remote_host, m1.conn.data_send_local,
                            m1.conn.data_send_remote)
             m3 == send_cls(m2, m2.conn.remote_host, m2.conn.data_recv_local,
                            m2.conn.data_recv_remote)
         IN  [m3 EXCEPT !.conn.state = "LISTENING"]
    ELSE LET m1 == IF m.conn.output_buffer_len + n <= OutputBufferSize
                   THEN [m EXCEPT !.conn.output_buffer =
                                      Append(@, [t |-> m.time_tick, off |-> 0, n |-> n]),
                                  !.conn.output_buffer_len = @ + n]
                   ELSE m
         IN  flush_output_buffer(m1)

\* As periodic_tasks, leaving the login timer armed after it has fired
periodic_tasks_keep_login(m) ==
    LET m1 == IF m.conn.console_login_time > 0 /\ m.time_tick >= m.conn.console_login_time
              THEN send_all(write(m, m.conn.console_fd, Login),
                            m.conn.remote_host, m.conn.data_recv_link, 10, 16000)
              ELSE m
    IN  IF m1.conn.console_close_time > 0 /\ m1.time_tick >= m1.conn.console_close_time
        THEN [disconnect_console(m1) EXCEPT !.conn.console_close_time = 0]
        ELSE m1

periodic_tasks(m) ==
    LET m1 == IF m.conn.console_login_time > 0 /\ m.time_tick >= m.conn.console_login_time
              THEN [send_all(write(m, m.conn.console_fd, Login),
                             m.conn.remote_host, m.conn.data_recv_link, 10, 16000)
                       EXCEPT !.conn.console_login_time = 0]
              ELSE m
    IN  IF m1.conn.console_close_time > 0 /\ m1.time_tick >= m1.conn.console_close_time
        THEN [disconnect_console(m1) EXCEPT !.conn.console_close_time = 0]
        ELSE m1


----------------------------------------------------------------------------
(* What the peer and the console can present to the program *)

\* NCP opcodes with their operands, as the bytes a peer puts in a control message
RTSb(rsock, lsock, link) == <<NCP_RTS>> \o insert_socket(rsock) \o insert_socket(lsock) \o <<link>>
STRb(rsock, lsock, size) == <<NCP_STR>> \o insert_socket(rsock) \o insert_socket(lsock) \o <<size>>
CLSb(rsock, lsock)       == <<NCP_CLS>> \o insert_socket(rsock) \o insert_socket(lsock)
ALLb(link, messages, bits) ==
    <<NCP_ALL, link, (messages \div 256) % 256, messages % 256>> \o insert_socket(V32(bits))
ECOb(d) == <<NCP_ECO, d>>

RECURSIVE Flatten(_)
Flatten(ss) == IF ss = << >> THEN << >> ELSE ss[1] \o Flatten(Tail(ss))

\* An IMP-to-host message: 1822 leader, NCP header and body.  The IMP delivers
\* whole words; the messages of the engine's peers all come padded with zero
\* bytes to MessageWords words.
MessageWords == 24

Zeros(k) == [i \in 1 .. k |-> 0]

Padded(p) == p \o Zeros(2 * MessageWords - Len(p))

Payload1822(type, host, link, bytesize, count, body) ==
    Padded(<<type, host, link, 0>> \o <<0, bytesize, (count \div 256) % 256, count % 256, 0>> \o body)

\* A peer framer with sequence number seq and flags fl sending payload (whole words)
Frame(seq, fl, payload) ==
    Wire(Datagram([tx_sequence |-> seq, imp_flags |-> fl], payload, Len(payload) \div 2))

PeerHost  == 70
OtherHost == 6
Hosts     == {PeerHost, OtherHost}

IcpRemote == V32(99)   \* the socket the client opens the ICP from
IcpLink   == 7
ClientLink == 9     \* the link the client sends data on
BadSocket == V32(5)

\* Opcode streams of the control messages a client may send, given what it can
\* know of the connection c and of the socket nds the next ALL will allocate:
\* each opcode of the ICP and of the data connection alone, and the handshake
\* packed in fewer messages.
ListenRts(l)   == RTSb(IcpRemote, V32(l), IcpLink)
IcpAll         == ALLb(IcpLink, 2, 8000)
DataStr(lsock) == STRb(Add32(IcpRemote, 2), lsock, 8)
DataRts(lsock) == RTSb(Add32(IcpRemote, 3), lsock, ClientLink)
DataCls(c)     == CLSb(Add32(IcpRemote, 2), c.data_recv_local)
IcpCls(c)      == CLSb(IcpRemote, c.listen_socket)

UnknownOpcode == 238    \* 0xEE, a byte process_ncp has no case for

ControlMessages(c, nds) ==
    { <<i>> : i \in { ListenRts(OLD_TELNET), ListenRts(NEW_TELNET),
                      IcpAll, DataStr(c.data_recv_local), DataRts(c.data_send_local),
                      DataCls(c), IcpCls(c),
                      ALLb(SendLink, 1, 8000), ALLb(SendLink, 2, 8000) } }
    \cup { << ListenRts(OLD_TELNET), IcpAll, DataStr(nds), DataRts(Add32(nds, 1)) >>,
           << DataStr(c.data_recv_local), DataRts(c.data_send_local) >>,
           << DataRts(c.data_send_local), DataCls(c) >>,
           << <<NCP_NOP>>, ListenRts(OLD_TELNET), <<UnknownOpcode>>, DataStr(nds) >> }

TelnetData == { <<65>> }

\* Descriptions of the inbound IMP messages: the fields of the leader and the
\* opcode stream (control) or data bytes, from which the datagram is built.
In(ev, src, link, ops) == [ev |-> ev, src |-> src, link |-> link, ops |-> ops]

Control(h, ops) == In("ncp", h, 0, ops)

ControlInputs(c, nds) == { Control(PeerHost, ops) : ops \in ControlMessages(c, nds) }

DataInputs(c) == { In("data", c.remote_host, c.data_recv_link, <<b>>) : b \in TelnetData }

LeaderInputs == { In("reset", 0, 0, << >>) }

ImpInputs(c, nds) == ControlInputs(c, nds) \cup DataInputs(c)

\* The datagram for an input description, framed by a peer whose sequence
\* number is seq and whose READY bit is set
DatagramFor(x, seq) ==
    LET body == Flatten(x.ops)
        type == IF x.ev = "rfnm" THEN IMP_RFNM
                ELSE IF x.ev = "reset" THEN IMP_RESET
                ELSE IF x.ev = "dead" THEN IMP_DEAD ELSE IMP_REGULAR
    IN  IF x.ev \in {"ncp", "data"}
        THEN Frame(seq, FLAG_READY, Payload1822(type, x.src, x.link, 8, Len(body), body))
        ELSE Frame(seq, FLAG_READY, Padded(<<type, x.src, x.link, 0>>))

ConsoleReads == {0, 60}

\* Whether the console accepts a connection matters only to a step that can
\* reach connect_to_console.
ConsoleOutcomes(c) == IF c.state \in {"LISTENING", "ICP_PHASE2"} THEN BOOLEAN ELSE {TRUE}

----------------------------------------------------------------------------
(* ncp.c (bbn-ncc): the monitor's statistics and decoders.  Time stamps     *)
(* (first_seen, last_seen, last_status_time, ...) and what is printed are   *)
(* left out; debug_mode is off, as at start.  Of the decoded records the    *)
(* leading fields are kept.                                                 *)

ImpSlots == 64

ZeroStatus == [ imp_number |-> 0, message_type |-> 0, banom |-> 0, mesgen_on |-> 0, mem_off |-> 0 ]

ZeroThroughput == [ imp_number |-> 0, message_type |-> 0 ]

ZeroStatus1973 == [ imp_number |-> 0, message_type |-> 0,
                    word1 |-> 0, word2 |-> 0, word3 |-> 0, word4 |-> 0, word5 |-> 0 ]

ZeroThroughput1973 == [ imp_number |-> 0, message_type |-> 0, counter |-> 0, field1 |-> 0 ]

ZeroSlot ==
    [ status_reports |-> 0, throughput_reports |-> 0, keepalives |-> 0,
      large_messages |-> 0, unknown_messages |-> 0,
      last_status |-> ZeroStatus, last_throughput |-> ZeroThroughput,
      last_status_1973 |-> ZeroStatus1973, last_throughput_1973 |-> ZeroThroughput1973,
      has_status |-> 0, has_throughput |-> 0, is_1973_format |-> 0,
      last_message_bytes |-> 0, min_message_bytes |-> 0, max_message_bytes |-> 0,
      total_message_bytes |-> 0, msg_type |-> "" ]

\* The arrays imps[64] and hosts[256] are kept as functions on the indexes
\* written so far; an index not in the domain holds the zeroes of memset.
Slot(st, k) == IF k \in DOMAIN st.imps THEN st.imps[k] ELSE ZeroSlot

SetSlot(st, k, v) ==
    [st EXCEPT !.imps = [x \in DOMAIN st.imps \cup {k} |-> IF x = k THEN v ELSE st.imps[x]]]

PacketsFrom(st, h) == IF h \in DOMAIN st.hosts THEN st.hosts[h] ELSE 0

CountHost(st, h) ==
    [st EXCEPT !.hosts = [x \in DOMAIN st.hosts \cup {h} |->
                             IF x = h THEN PacketsFrom(st, h) + 1 ELSE st.hosts[x]]]

\* memset (&stats, 0, sizeof (stats))
ZeroStats ==
    [ total_packets |-> 0, regular_packets |-> 0, ncc_status_packets |-> 0,
      ncp_control_packets |-> 0, user_data_packets |-> 0, rfnm_packets |-> 0,
      reset_packets |-> 0, dead_host_packets |-> 0, other_packets |-> 0, total_bytes |-> 0,
      imps |-> << >>,
      hosts |-> << >> ]

get_word(data, word_index) == At(data, word_index * 2) * 256 + At(data, word_index * 2 + 1)

\* d1 * 100 + d2 * 10 + d3 of the three low octal digits of a word
OctalCode(w) == ((w \div 64) % 8) * 100 + ((w \div 8) % 8) * 10 + (w % 8)

\* The decoders return their int result as ok and the record written as msg
decode_status_message(data, count) ==
    LET word1 == get_word(data, 0)
        word4 == get_word(data, 3)
        m1    == [ZeroStatus EXCEPT !.imp_number = ((word1 \div 8) % 8) * 8 + (word1 % 8),
                                    !.message_type = OctalCode(get_word(data, 2))]
    IN  IF count # 72 THEN [ok |-> FALSE, msg |-> ZeroStatus]
        ELSE IF m1.message_type # 304 THEN [ok |-> FALSE, msg |-> m1]
        ELSE [ok |-> TRUE,
              msg |-> [m1 EXCEPT !.banom = word4 % 2048,
                                 !.mesgen_on = (word4 \div 1024) % 2,
                                 !.mem_off = (word4 \div 64) % 2]]

decode_throughput_message(data, count) ==
    LET word1 == get_word(data, 0)
        m1    == [ZeroThroughput EXCEPT !.imp_number = ((word1 \div 8) % 8) * 8 + (word1 % 8),
                                        !.message_type = OctalCode(get_word(data, 2))]
    IN  IF count # 118 THEN [ok |-> FALSE, msg |-> ZeroThroughput]
        ELSE IF m1.message_type # 302 THEN [ok |-> FALSE, msg |-> m1]
        ELSE [ok |-> TRUE, msg |-> m1]

decode_1973_throughput(data, count, imp_num) ==
    IF count # 59 THEN [ok |-> FALSE, msg |-> ZeroThroughput1973]
    ELSE [ok |-> TRUE,
          msg |-> [imp_number |-> imp_num, message_type |-> 303,
                   counter |-> At(data, 8), field1 |-> get_word(data, 5)]]

decode_1973_status(data, count, imp_num) ==
    IF count # 101 THEN [ok |-> FALSE, msg |-> ZeroStatus1973]
    ELSE [ok |-> TRUE,
          msg |-> [imp_number |-> imp_num, message_type |-> 302,
                   word1 |-> get_word(data, 0), word2 |-> get_word(data, 1),
                   word3 |-> get_word(data, 2), word4 |-> get_word(data, 3),
                   word5 |-> get_word(data, 4)]]

\* snprintf (msg_type, 16, "TYPE-%u", msg_type): the code is kept, not the text
UnknownType(code) == <<"TYPE", code>>

process_ncc_status(st, source, data, count) ==
    LET imp_num == source % ImpSlots
        s0  == Slot(st, imp_num)
        s1  == [s0 EXCEPT !.last_message_bytes = count,
                          !.total_message_bytes = @ + count,
                          !.min_message_bytes = IF @ = 0 \/ count < @ THEN count ELSE @,
                          !.max_message_bytes = IF count > @ THEN count ELSE @]
        code == OctalCode(get_word(data, 2))
        ds  == decode_status_message(data, count)
        dt  == decode_throughput_message(data, count)
        s2  == IF count = 0 THEN [s1 EXCEPT !.keepalives = @ + 1]
               ELSE IF count > 1000 THEN [s1 EXCEPT !.large_messages = @ + 1]
               ELSE IF count < 6 THEN s1
               ELSE IF code = 304
               THEN IF ds.ok
                    THEN [s1 EXCEPT !.status_reports = @ + 1, !.last_status = ds.msg,
                                    !.has_status = 1, !.msg_type = "STATUS-304"]
                    ELSE s1
               ELSE IF code = 302
               THEN IF dt.ok
                    THEN [s1 EXCEPT !.throughput_reports = @ + 1, !.last_throughput = dt.msg,
                                    !.has_throughput = 1, !.msg_type = "THRU-302"]
                    ELSE s1
               ELSE [s1 EXCEPT !.unknown_messages = @ + 1, !.msg_type = UnknownType(code)]
    IN  SetSlot(st, imp_num, s2)

\* length is the number of 16-bit words imp_receive_message delivered
process_regular(st, packet, length) ==
    LET source  == At(packet, 1)
        link    == At(packet, 2)
        actual_data_bytes == length * 2 - 9
        st1     == CountHost([st EXCEPT !.regular_packets = @ + 1], source)
        leader_type == At(packet, 5)
        imp_num == source % ImpSlots
        data    == From(packet, 9)
        t73     == decode_1973_throughput(data, actual_data_bytes, imp_num)
        s73     == decode_1973_status(data, actual_data_bytes, imp_num)
        st2     == [st1 EXCEPT !.ncc_status_packets = @ + 1]
        is_1973_message ==
            \/ leader_type = 195 /\ actual_data_bytes = 59 /\ t73.ok
            \/ leader_type = 194 /\ actual_data_bytes = 101 /\ s73.ok
        st3     == IF leader_type = 195 /\ actual_data_bytes = 59
                   THEN IF t73.ok
                        THEN SetSlot(st2, imp_num,
                                 [Slot(st2, imp_num) EXCEPT
                                           !.throughput_reports = @ + 1,
                                           !.last_throughput_1973 = t73.msg,
                                           !.has_throughput = 1, !.is_1973_format = 1,
                                           !.msg_type = "1973-303"])
                        ELSE st2
                   ELSE IF leader_type = 194 /\ actual_data_bytes = 101
                   THEN IF s73.ok
                        THEN SetSlot(st2, imp_num,
                                 [Slot(st2, imp_num) EXCEPT
                                           !.status_reports = @ + 1,
                                           !.last_status_1973 = s73.msg,
                                           !.has_status = 1, !.is_1973_format = 1,
                                           !.msg_type = "1973-302"])
                        ELSE st2
                   ELSE process_ncc_status(st2, source, data, actual_data_bytes)
    IN  IF link = 0
        THEN IF ~is_1973_message /\ actual_data_bytes > 0 /\ At(packet, 9) <= NCP_RRP
             THEN [st3 EXCEPT !.ncp_control_packets = @ + 1]
             ELSE st3
        ELSE [st1 EXCEPT !.user_data_packets = @ + 1]

\* As process_imp, counting a message whose leader is too short among the others
process_imp_short_other(st, packet, length) ==
    LET st1  == [st EXCEPT !.total_packets = @ + 1, !.total_bytes = @ + length * 2]
        type == At(packet, 0) % 16
    IN  IF length < 2 THEN [st1 EXCEPT !.other_packets = @ + 1]
        ELSE IF type = IMP_REGULAR THEN process_regular(st1, packet, length)
        ELSE IF type = IMP_RFNM THEN [st1 EXCEPT !.rfnm_packets = @ + 1]
        ELSE IF type = IMP_RESET THEN [st1 EXCEPT !.reset_packets = @ + 1]
        ELSE IF type = IMP_DEAD THEN [st1 EXCEPT !.dead_host_packets = @ + 1]
        ELSE [st1 EXCEPT !.other_packets = @ + 1]

process_imp(st, packet, length) ==
    LET st1  == [st EXCEPT !.total_packets = @ + 1, !.total_bytes = @ + length * 2]
        type == At(packet, 0) % 16
    IN  IF length < 2 THEN st1
        ELSE IF type = IMP_REGULAR THEN process_regular(st1, packet, length)
        ELSE IF type = IMP_RFNM THEN [st1 EXCEPT !.rfnm_packets = @ + 1]
        ELSE IF type = IMP_RESET THEN [st1 EXCEPT !.reset_packets = @ + 1]
        ELSE IF type = IMP_DEAD THEN [st1 EXCEPT !.dead_host_packets = @ + 1]
        ELSE [st1 EXCEPT !.other_packets = @ + 1]

----------------------------------------------------------------------------
(* The program as a state machine: main() of waitsconnect.c *)

Machine(up) ==
    [ imp |-> imp, conn |-> conn, time_tick |-> time_tick,
      next_data_socket |-> next_data_socket, open_fds |-> open_fds,
      sent |-> << >>, wrote |-> << >>, console_up |-> up ]

\* (the quantifier over a singleton has the machine computed once)
Commit(after) ==
    \E m \in {after} :
        /\ imp' = m.imp
        /\ conn' = m.conn
        /\ time_tick' = m.time_tick
        /\ next_data_socket' = m.next_data_socket
        /\ open_fds' = m.open_fds
        /\ sent' = m.sent
        /\ wrote' = m.wrote
        /\ UNCHANGED stats

\* Statics as the loader leaves them, then imp_init
Init ==
    /\ imp = [ rx_sequence |-> Zero32, tx_sequence |-> Zero32, imp_flags |-> 0, imp_ready |-> 0,
               message |-> << >> ]
    /\ conn = ZeroConn
    /\ time_tick = 0
    /\ next_data_socket = V32(FirstDataSocket)
    /\ open_fds = {}
    /\ pc = "start"
    /\ sel_fd = -1
    /\ rx = RxStart
    /\ sent = << >>
    /\ wrote = << >>
    /\ stats = ZeroStats

\* main() from imp_host_ready (1) to the head of the event loop
Startup ==
    /\ pc = "start"
    /\ LET m1 == imp_host_ready(Machine(TRUE), TRUE)
           m2 == [m1 EXCEPT !.conn = [ZeroConn EXCEPT !.state = "LISTENING", !.console_fd = -1]]
           m3 == send_nop(send_nop(send_nop(m2)))
       IN  Commit(m3)
    /\ pc' = "imp"
    /\ sel_fd' = -1
    /\ UNCHANGED rx

\* handle_imp: one read() of imp_receive_message, from the call or from the
\* label loop, and when the call returns the rest of handle_imp.
\* Yields the machine, the position and the receive locals after the step.
ImpStep(d, up) ==
    LET res == imp_receive_pass(imp, IF pc = "frag" THEN rx ELSE RxStart, d)
        m0  == [Machine(up) EXCEPT !.imp = res.imp]
    IN  IF res.fault THEN [m |-> m0, pc |-> "crashed", rx |-> res.r]
        ELSE IF res.more THEN [m |-> m0, pc |-> "frag", rx |-> res.r]
        ELSE [m  |-> IF res.r.length = 0 THEN m0 ELSE handle_imp(m0, res.r.data),
              pc |-> "console", rx |-> RxStart]

ReceiveDatagram(d, up) ==
    /\ pc \in {"imp", "frag"}
    /\ \E s \in {ImpStep(d, up)} :
          Commit(s.m) /\ pc' = s.pc /\ rx' = s.rx
    /\ UNCHANGED sel_fd

HandleImp ==
    \E x \in ImpInputs(conn, next_data_socket), up \in ConsoleOutcomes(conn) :
        /\ pc = "imp"
        /\ ReceiveDatagram(DatagramFor(x, imp.rx_sequence), up)

\* The console descriptor is readable and was in the set given to select()
ConsoleInput(n) ==
    /\ pc \in {"imp", "console"}
    /\ conn.console_fd >= 0
    /\ conn.console_fd = sel_fd
    /\ Commit(handle_console_input(Machine(TRUE), n))
    /\ pc' = "tick"
    /\ UNCHANGED <<sel_fd, rx>>

HandleConsoleInput == \E n \in ConsoleReads : ConsoleInput(n)

\* time_tick++; periodic_tasks (); and the next select()
PeriodicTasks ==
    /\ pc \in {"imp", "console", "tick"}
    /\ time_tick < MaxTick
    /\ \E m \in {periodic_tasks([Machine(TRUE) EXCEPT !.time_tick = @ + 1])} :
           /\ Commit(m)
           /\ sel_fd' = m.conn.console_fd
    /\ pc' = "imp"
    /\ UNCHANGED rx

Next == Startup \/ HandleImp \/ HandleConsoleInput \/ PeriodicTasks

Spec == Init /\ [][Next]_vars


----------------------------------------------------------------------------
(* The framer of imp.c on its own, driven with arbitrary datagrams *)

MaxSends == 2        \* datagrams sent in a run of the framer

FramerSeqs    == {Zero32, V32(1), V32(2), V32(3), Max32}
FramerFlags   == {0, FLAG_READY}
PayloadBytes  == {7, 200}

Payloads(w) == [1 .. 2 * w -> PayloadBytes]

AllPayloads == UNION { Payloads(w) : w \in 0 .. MaxPayloadWords }

\* One payload of each size
RECURSIVE Ramp(_)
Ramp(k) == IF k = 0 THEN << >> ELSE Ramp(k - 1) \o <<IF k % 2 = 1 THEN 7 ELSE 200>>

SomePayloads == { Ramp(2 * w) : w \in 0 .. MaxPayloadWords }

\* What a peer running the same imp.c emits for tx_sequence = seq, imp_flags = fl
PeerFrames == { Frame(seq, fl, p) : seq \in FramerSeqs, fl \in FramerFlags, p \in SomePayloads }

\* The same datagram with the LAST bit cleared: a fragment that is not the final one
ClearLast(d) == [d EXCEPT ![12] = ClrBit(@, FLAG_LAST)]

Fragments == { ClearLast(Frame(seq, fl, Ramp(2))) : seq \in FramerSeqs, fl \in FramerFlags }

\* Datagrams no imp.c emits: a foreign magic, an empty datagram, a word
\* count that disagrees with the byte count
Malformed ==
    { [Frame(V32(1), 0, <<7, 7>>) EXCEPT ![1] = 88],
      << >>,
      [Frame(V32(2), 0, <<7, 7>>) EXCEPT ![10] = 3],
      [Frame(V32(3), FLAG_READY, <<7, 7, 200, 200>>) EXCEPT ![10] = 2] }

FramerInputs == PeerFrames \cup Fragments \cup Malformed

FramerInit ==
    /\ imp = [ rx_sequence |-> Zero32, tx_sequence |-> Zero32, imp_flags |-> 0, imp_ready |-> 0,
               message |-> << >> ]
    /\ conn = ZeroConn
    /\ time_tick = 0
    /\ next_data_socket = V32(FirstDataSocket)
    /\ open_fds = {}
    /\ pc = "imp"
    /\ sel_fd = -1
    /\ rx = RxStart
    /\ sent = << >>
    /\ wrote = << >>
    /\ stats = ZeroStats

FramerCommit(after) ==
    \E m \in {after} :
        /\ imp' = m.imp
        /\ sent' = m.sent
        /\ UNCHANGED <<conn, time_tick, next_data_socket, open_fds, sel_fd, wrote, stats>>

FramerSend ==
    \E p \in SomePayloads :
        /\ pc = "imp"
        /\ Lt32(imp.tx_sequence, V32(MaxSends))
        /\ FramerCommit(imp_send_message(Machine(TRUE), p, Len(p) \div 2))
        /\ UNCHANGED <<pc, rx>>

FramerHostReady ==
    \E flag \in BOOLEAN :
        /\ pc = "imp"
        /\ Lt32(imp.tx_sequence, V32(MaxSends))
        /\ FramerCommit(imp_host_ready(Machine(TRUE), flag))
        /\ UNCHANGED <<pc, rx>>

\* One read() of imp_receive_message, from the call or from the label loop
FramerStep(d) ==
    LET res == imp_receive_pass(imp, IF pc = "frag" THEN rx ELSE RxStart, d)
    IN  [imp |-> res.imp, rx |-> IF res.more THEN res.r ELSE RxStart, out |-> res.r,
         pc |-> IF res.fault THEN "crashed" ELSE IF res.more THEN "frag" ELSE "imp"]

FramerReceive ==
    \E d \in FramerInputs :
        /\ pc \in {"imp", "frag"}
        /\ pc = "frag" => Len(rx.data) < 2 * MaxPayloadWords
        /\ \E s \in {FramerStep(d)} :
               imp' = s.imp /\ rx' = s.rx /\ pc' = s.pc
        /\ sent' = << >>
        /\ UNCHANGED <<conn, time_tick, next_data_socket, open_fds, sel_fd, wrote, stats>>

FramerNext == FramerSend \/ FramerHostReady \/ FramerReceive

FramerSpec == FramerInit /\ [][FramerNext]_vars


----------------------------------------------------------------------------
(* Properties *)

\* Values the probes below give to the fields a client chooses
ProbeSockets == {IcpRemote, Max32}
ProbeLinks   == {0, IcpLink, SendLink}
ProbeCounts  == {0, 1, 2, 3, 65535}
ProbeReads   == {1, 59, 60, MaxDataMessage - 1, MaxDataMessage}

\* The machine after handle_imp has taken, in the current state, a control
\* message from host h holding the single opcode op
Feed(h, op, up) == ImpStep(DatagramFor(Control(h, <<op>>), imp.rx_sequence), up).m

\* handle_imp applied to machine m for a control message from PeerHost with body
Then(m, body) ==
    handle_imp(m, <<IMP_REGULAR, PeerHost, 0, 0>> \o <<0, 8, 0, Len(body), 0>> \o body)

\* C1: in every reachable state the connection is ESTABLISHED only with both
\* got_str and got_rts set and data_send_link = 45, and is never in ICP_PHASE2
\* with both set; and from every LISTENING state, with a console that accepts,
\* RTS to a listen socket, ALL on the ICP link, then the client's STR naming
\* data_recv_local and RTS naming data_send_local in either order pass through
\* ICP_PHASE1 and ICP_PHASE2, are still in ICP_PHASE2 with one flag set after
\* the first of the two, and end ESTABLISHED with data_send_link = 45 and
\* data_recv_link the link of that RTS.
C1_Handshake ==
    /\ conn.state = "ESTABLISHED" =>
          conn.got_str # 0 /\ conn.got_rts # 0 /\ conn.data_send_link = 45
    /\ conn.state = "ICP_PHASE2" => ~(conn.got_str # 0 /\ conn.got_rts # 0)
    /\ (pc = "imp" /\ conn.state = "LISTENING" /\ FreeFds(Machine(TRUE)) # {}) =>
          \A l \in {OLD_TELNET, NEW_TELNET}, r \in ProbeSockets,
             il \in {IcpLink, SendLink}, cl \in {ClientLink, 255}, strFirst \in BOOLEAN :
             LET m1  == Then(Machine(TRUE), RTSb(r, V32(l), il))
                 m2  == Then(m1, ALLb(il, 2, 8000))
                 str == STRb(Add32(r, 2), m2.conn.data_recv_local, 8)
                 rts == RTSb(Add32(r, 3), m2.conn.data_send_local, cl)
                 m3  == Then(m2, IF strFirst THEN str ELSE rts)
                 m4  == Then(m3, IF strFirst THEN rts ELSE str)
             IN  /\ m1.conn.state = "ICP_PHASE1"
                 /\ m2.conn.state = "ICP_PHASE2"
                 /\ m2.conn.got_str = 0 /\ m2.conn.got_rts = 0
                 /\ m3.conn.state = "ICP_PHASE2"
                 /\ (m3.conn.got_str # 0) = strFirst
                 /\ (m3.conn.got_rts # 0) = ~strFirst
                 /\ m4.conn.state = "ESTABLISHED"
                 /\ m4.conn.got_str # 0 /\ m4.conn.got_rts # 0
                 /\ m4.conn.data_send_link = 45
                 /\ m4.conn.data_recv_link = cl
                 /\ m4.conn.console_fd \in m4.open_fds

\* The handshake has completed with the client's RTS carrying link ClientLink
C1_Witness ==
    /\ conn.state = "ESTABLISHED"
    /\ pc = "console"
    /\ conn.got_str = 1 /\ conn.got_rts = 1
    /\ conn.data_send_link = 45
    /\ conn.data_recv_link = ClientLink
    /\ conn.console_fd \in open_fds
    /\ sent = << >>

\* C2: in LISTENING, an RTS from host h to listen socket 1 or 23 with remote
\* socket r and link l makes the engine send exactly one message,
\* STR(listen socket, r, 32) to h, record h, r, l and the protocol variant,
\* and enter ICP_PHASE1.
C2_ListenRts ==
    (pc = "imp" /\ conn.state = "LISTENING") =>
       \A h \in Hosts, l \in {OLD_TELNET, NEW_TELNET}, r \in ProbeSockets, il \in ProbeLinks :
          LET m == Feed(h, RTSb(r, V32(l), il), TRUE)
          IN  /\ Len(m.sent) = 1
              /\ m.sent[1].dg.data = Packet(IMP_REGULAR, h, 0, 8, 10, NCP_STR, <<V32(l), r, 32>>)
              /\ m.conn.remote_host = h
              /\ m.conn.icp_remote_socket = r
              /\ m.conn.icp_link = il
              /\ m.conn.listen_socket = V32(l)
              /\ m.conn.protocol = (IF l = OLD_TELNET THEN "OLD" ELSE "NEW")
              /\ m.conn.state = "ICP_PHASE1"

\* An RTS to socket 23 has just been answered
C2_Witness ==
    /\ conn.state = "ICP_PHASE1"
    /\ pc = "console"
    /\ conn.protocol = "NEW"
    /\ conn.remote_host = PeerHost
    /\ Len(sent) = 1
    /\ sent[1].dg.data.op = NCP_STR
    /\ sent[1].dg.data.args = <<V32(NEW_TELNET), IcpRemote, 32>>

IsData(e) ==
    /\ e.dg.n > 12
    /\ e.dg.data.type = IMP_REGULAR
    /\ e.dg.data.op = -1
    /\ e.dg.data.bytesize = 8

RECURSIVE RunBytes(_)
RunBytes(b) ==
    IF b = << >> THEN << >>
    ELSE [k \in 1 .. b[1].n |-> <<b[1].t, b[1].off + k - 1>>] \o RunBytes(Tail(b))

RECURSIVE SentBytes(_)
SentBytes(ss) == IF ss = << >> THEN << >> ELSE RunBytes(ss[1].dg.data.args) \o SentBytes(Tail(ss))

\* C5: in ESTABLISHED with no timer armed and send_allocation = 0, a console
\* read of n bytes that fits the buffer adds n to output_buffer_len and sends
\* nothing; an ALL on data_send_link with count N sends exactly
\* min(N, ceil(buffered/100)) messages, all data messages of at most 100 bytes
\* which together are the head of the buffer in order, and leaves
\* send_allocation = N minus the number sent.
C5_FlowControl ==
    (/\ pc = "imp"
     /\ conn.state = "ESTABLISHED"
     /\ conn.console_close_time = 0 /\ conn.console_login_time = 0
     /\ conn.send_allocation = 0) =>
       /\ \A n \in ProbeReads :
             conn.output_buffer_len + n <= OutputBufferSize =>
                LET m == handle_console_input(Machine(TRUE), n)
                IN  /\ m.conn.output_buffer_len = conn.output_buffer_len + n
                    /\ RunBytes(m.conn.output_buffer) =
                          RunBytes(conn.output_buffer) \o [k \in 1 .. n |-> <<time_tick, k - 1>>]
                    /\ m.sent = << >>
       /\ \A h \in Hosts, n \in ProbeCounts :
             LET m        == Feed(h, ALLb(conn.data_send_link, n, 8000), TRUE)
                 buffered == conn.output_buffer_len
                 k        == Min(n, (buffered + 99) \div 100)
                 bytes    == SentBytes(m.sent)
             IN  /\ Len(m.sent) = k
                 /\ \A i \in 1 .. k :
                       /\ IsData(m.sent[i])
                       /\ m.sent[i].dg.data.count <= 100
                       /\ m.sent[i].dg.data.count = RunsLen(m.sent[i].dg.data.args)
                       /\ m.sent[i].dg.data.link = conn.data_send_link
                 /\ bytes = SubSeq(RunBytes(conn.output_buffer), 1, Len(bytes))
                 /\ RunBytes(m.conn.output_buffer) =
                       SubSeq(RunBytes(conn.output_buffer), Len(bytes) + 1, buffered)
                 /\ m.conn.send_allocation = n - k

\* An ALL for one message has released the first 100 of more buffered bytes
C5_Witness ==
    /\ conn.state = "ESTABLISHED"
    /\ pc = "console"
    /\ Len(sent) = 1
    /\ IsData(sent[1])
    /\ sent[1].dg.data.count = 100
    /\ sent[1].alloc = 1
    /\ conn.output_buffer_len > 0
    /\ conn.send_allocation = 0

\* C6: a CLS taken in ESTABLISHED with the console open makes the engine send
\* exactly two messages, CLS(data_send_local, data_send_remote) and
\* CLS(data_recv_local, data_recv_remote), arm the close timer and enter
\* LISTENING; and whenever the close timer is armed, a console read, whatever
\* it returns, sends nothing, leaves the output buffer as it was and does not
\* disconnect the console.
C6_Teardown ==
    /\ (pc = "imp" /\ conn.state = "ESTABLISHED" /\ conn.console_fd >= 0) =>
          \A h \in Hosts,
             ls \in {conn.data_recv_local, conn.data_send_local, conn.listen_socket, BadSocket} :
             LET m == Feed(h, CLSb(IcpRemote, ls), TRUE)
             IN  /\ Len(m.sent) = 2
                 /\ m.sent[1].dg.data = Packet(IMP_REGULAR, h, 0, 8, 9, NCP_CLS,
                                               <<conn.data_send_local, conn.data_send_remote>>)
                 /\ m.sent[2].dg.data = Packet(IMP_REGULAR, h, 0, 8, 9, NCP_CLS,
                                               <<conn.data_recv_local, conn.data_recv_remote>>)
                 /\ m.conn.console_close_time = time_tick + 3
                 /\ m.conn.console_close_time > 0
                 /\ m.conn.state = "LISTENING"
    /\ (conn.console_close_time > 0 /\ conn.console_fd >= 0) =>
          \A n \in {-1, 0} \cup ProbeReads :
             LET m == handle_console_input(Machine(TRUE), n)
             IN  /\ m.sent = << >>
                 /\ m.conn = conn
                 /\ m.open_fds = open_fds

\* A console read has been handled while the close timer armed by a CLS runs
C6_Witness ==
    /\ pc = "tick"
    /\ conn.state = "LISTENING"
    /\ conn.console_close_time = time_tick + 3
    /\ conn.console_fd \in open_fds
    /\ sent = << >>

\* C7: a CLS taken in ESTABLISHED at tick T with the console open arms the
\* close timer for T + 3; while the timer is armed and the tick stays below
\* it, no console socket is closed and a console read changes nothing and
\* sends nothing; at the first periodic check with time_tick >= the deadline the
\* timer is cleared and the console socket is closed, so that no console
\* socket is left open.
C7_Step ==
    /\ (/\ conn.state = "ESTABLISHED" /\ conn.console_fd >= 0
        /\ pc' = "console" /\ conn'.state = "LISTENING") =>
          /\ conn'.console_close_time = time_tick + 3
          /\ conn'.console_fd = conn.console_fd
          /\ conn.console_fd \in open_fds'
    /\ (conn.console_close_time > 0 /\ time_tick' < conn.console_close_time) =>
          /\ conn'.console_close_time > 0
          /\ open_fds \subseteq open_fds'
          /\ pc' = "tick" => (conn' = conn /\ sent' = << >>)
    /\ (conn.console_close_time > 0 /\ time_tick' >= conn.console_close_time) =>
          /\ time_tick' = conn.console_close_time
          /\ conn'.console_close_time = 0
          /\ conn'.console_fd = -1
          /\ open_fds' = {}

C7_CloseTimer == [][C7_Step]_vars

\* Sequence number carried by a logged datagram, read back from its bytes 4..7
SeqOf(e) == Word32(From(e.dg.hdr, 4))

\* C8: the datagrams a step hands to sendto() carry consecutive sequence
\* numbers, starting at the value tx_sequence had before the step (0 for the
\* first datagram after imp_init), each strictly greater than the one before,
\* and tx_sequence advances by the number of datagrams sent.
C8_SequenceStep ==
    /\ imp'.tx_sequence = Add32(imp.tx_sequence, Len(sent'))
    /\ \A k \in 1 .. Len(sent') :
          /\ SeqOf(sent'[k]) = Add32(imp.tx_sequence, k - 1)
          /\ k > 1 => Lt32(SeqOf(sent'[k - 1]), SeqOf(sent'[k]))
    /\ pc = "start" => imp.tx_sequence = Zero32

C8_TxSequenceIncreasing == [][C8_SequenceStep]_vars

\* A step of the engine has sent several NCP messages after the start-up datagrams
C8_Witness ==
    /\ Len(sent) = 4
    /\ sent[2].dg.data.op = NCP_CLS
    /\ SeqOf(sent[1]) = V32(5)
    /\ SeqOf(sent[4]) = V32(8)

\* What a datagram with the given sequence number, flags, payload and LAST bit
\* does to the framer in the current state
Probe(seq, fl, p, last) ==
    FramerStep(IF last THEN Frame(seq, fl, p) ELSE ClearLast(Frame(seq, fl, p)))

\* C9: in every state in which the framer reads a datagram with valid magic,
\* a non-zero sequence number below rx_sequence is rejected (length 0,
\* rx_sequence unchanged, no further read), a sequence number not below
\* rx_sequence is accepted and leaves rx_sequence one above it (in 32 bits),
\* its payload is appended to what the caller gets, and a sequence number 0
\* met with rx_sequence # 0 is accepted as a restart and leaves rx_sequence = 1.
C9_SequenceCheck ==
    pc \in {"imp", "frag"} =>
      \A seq \in FramerSeqs, fl \in FramerFlags, p \in SomePayloads, last \in BOOLEAN :
         LET s   == Probe(seq, fl, p, last)
             old == IF pc = "frag" THEN rx ELSE RxStart
         IN  /\ (seq # Zero32 /\ Lt32(seq, imp.rx_sequence)) =>
                   /\ s.out.length = 0
                   /\ s.imp.rx_sequence = imp.rx_sequence
                   /\ s.pc = "imp"
             /\ ~Lt32(seq, imp.rx_sequence) =>
                   /\ s.imp.rx_sequence = Add32(seq, 1)
                   /\ p # << >> => /\ s.out.data = old.data \o p
                                   /\ s.out.length = old.length + Len(p) \div 2
             /\ (seq = Zero32 /\ imp.rx_sequence # Zero32) =>
                   /\ s.imp.rx_sequence = V32(1)
                   /\ p # << >> => s.out.data = old.data \o p

\* The datagram read last carried a non-zero sequence number two or more below
\* rx_sequence: it was rejected
C9_Witness ==
    /\ Len(imp.message) = 12
    /\ Word32(From(imp.message, 4)) # Zero32
    /\ Lt32(Add32(Word32(From(imp.message, 4)), 1), imp.rx_sequence)

\* C10: a datagram built by imp_send_message from a payload of w words, a
\* sequence number and a READY flag, read by a framer whose rx_sequence does
\* not exceed the sequence number, delivers the same bytes and the length w,
\* and leaves rx_sequence one above the sequence number and imp_ready equal to
\* the sender's READY flag.
C10_RoundTrip ==
    pc = "imp" =>
      \A seq \in FramerSeqs, fl \in FramerFlags, p \in AllPayloads :
         ~Lt32(seq, imp.rx_sequence) =>
            LET s == Probe(seq, fl, p, TRUE)
            IN  /\ s.pc = "imp"
                /\ s.out.data = p
                /\ s.out.length = Len(p) \div 2
                /\ s.imp.rx_sequence = Add32(seq, 1)
                /\ s.imp.imp_ready = fl

\* One call of imp_receive_message given the datagrams ds that read() will
\* return, in order: the passes made until one returns.  left is the number of
\* datagrams the call did not read; open says the call ran out of datagrams
\* and is still in read().
RECURSIVE ReceiveCall(_, _, _)
ReceiveCall(i, r, ds) ==
    IF ds = << >> THEN [imp |-> i, r |-> r, left |-> 0, open |-> TRUE, fault |-> FALSE]
    ELSE LET res == imp_receive_pass(i, r, Head(ds))
         IN  IF res.more /\ ~res.fault
             THEN ReceiveCall(res.imp, res.r, Tail(ds))
             ELSE [imp |-> res.imp, r |-> res.r, left |-> Len(ds) - 1, open |-> FALSE,
                   fault |-> res.fault]

\* A message cut in fragments: the payloads ps sent with sequence numbers ss
\* and flags fl, LAST set on the final one only
FragmentsOf(ss, fl, ps) ==
    [k \in 1 .. Len(ps) |-> IF k = Len(ps) THEN Frame(ss[k], fl, ps[k])
                            ELSE ClearLast(Frame(ss[k], fl, ps[k]))]

NonDecreasing(ss) == \A k \in 1 .. Len(ss) - 1 : ~Lt32(ss[k + 1], ss[k])

FragmentCounts == {2, 3}

\* C11: for every message of two or three fragments with valid magic and
\* non-decreasing sequence numbers, none below rx_sequence, one call of
\* imp_receive_message reads all the fragments, returns after the one with
\* LAST, and delivers the payloads concatenated in arrival order with length
\* the sum of their word counts.
C11_Reassembly ==
    pc = "imp" =>
      \A k \in FragmentCounts :
        \A ss \in [1 .. k -> FramerSeqs], ps \in [1 .. k -> SomePayloads], fl \in FramerFlags :
           (NonDecreasing(ss) /\ ~Lt32(ss[1], imp.rx_sequence)) =>
              LET c == ReceiveCall(imp, RxStart, FragmentsOf(ss, fl, ps))
              IN  /\ ~c.open /\ c.left = 0
                  /\ c.r.data = Flatten(ps)
                  /\ c.r.length = Len(Flatten(ps)) \div 2

\* C12: imp_host_ready (flag) called with flag different from the READY bit
\* of imp_flags sends exactly one datagram, of 12 bytes with word count 1, no
\* payload and the new READY bit, and sets the bit; called with flag equal to
\* the bit it sends nothing and leaves tx_sequence and imp_flags as they were.
C12_HostReady ==
    pc = "imp" =>
      \A flag \in BOOLEAN :
         LET m == imp_host_ready(Machine(TRUE), flag)
         IN  IF flag # BitSet(imp.imp_flags, FLAG_READY)
             THEN /\ Len(m.sent) = 1
                  /\ m.sent[1].dg.n = 12
                  /\ Len(Wire(m.sent[1].dg)) = 12
                  /\ m.sent[1].dg.hdr[9] * 256 + m.sent[1].dg.hdr[10] = 1
                  /\ BitSet(m.sent[1].dg.hdr[11] * 256 + m.sent[1].dg.hdr[12], FLAG_READY) = flag
                  /\ BitSet(m.imp.imp_flags, FLAG_READY) = flag
                  /\ m.imp.tx_sequence = Add32(imp.tx_sequence, 1)
             ELSE /\ m.sent = << >>
                  /\ m.imp = imp

\* The first datagram sent is the announcement of READY
C12_Witness ==
    /\ pc = "imp"
    /\ Len(sent) = 1
    /\ SeqOf(sent[1]) = Zero32
    /\ sent[1].dg.n = 12
    /\ BitSet(sent[1].dg.hdr[12], FLAG_READY)
    /\ imp.imp_flags = FLAG_READY
    /\ imp.tx_sequence = V32(1)

\* The machine after handle_imp has taken, in the current state, a control
\* message from host h holding the opcodes ops
FeedAll(h, ops, up) == ImpStep(DatagramFor(Control(h, ops), imp.rx_sequence), up).m

UnknownOpcodes == {UnknownOpcode, 255}

\* The RTS and STR a client may put around an unknown opcode: for the ICP, or
\* for the data connection c is waiting for
StreamPairs(c, nds) ==
    { <<ListenRts(OLD_TELNET), DataStr(nds)>>,
      <<ListenRts(NEW_TELNET), DataStr(c.data_recv_local)>>,
      <<DataRts(c.data_send_local), DataStr(c.data_recv_local)>> }

\* C13: a control message NOP, RTS, unknown opcode, STR leaves the engine as
\* the message NOP, RTS alone does, in every state: the RTS has its effect
\* (in LISTENING the state becomes ICP_PHASE1 and exactly the STR reply is
\* sent), nothing after the unknown opcode has any, and handle_imp returns to
\* the event loop.
C13_UnknownOpcode ==
    pc = "imp" =>
      \A u \in UnknownOpcodes, pr \in StreamPairs(conn, next_data_socket),
         up \in ConsoleOutcomes(conn) :
         LET s    == ImpStep(DatagramFor(Control(PeerHost, << <<NCP_NOP>>, pr[1], <<u>>, pr[2] >>),
                                         imp.rx_sequence), up)
             only == FeedAll(PeerHost, << <<NCP_NOP>>, pr[1] >>, up)
         IN  /\ s.m = only
             /\ s.pc = "console"
             /\ (conn.state = "LISTENING" /\ pr[1] # DataRts(conn.data_send_local)) =>
                   /\ only.conn.state = "ICP_PHASE1"
                   /\ Len(only.sent) = 1
                   /\ only.sent[1].dg.data.op = NCP_STR
             /\ (conn.state = "ICP_PHASE2" /\ pr[1] = DataRts(conn.data_send_local)) =>
                   /\ only.conn.got_rts = 1
                   /\ only.conn.got_str = conn.got_str
                   /\ only.conn.data_recv_remote = conn.data_recv_remote

\* The RTS of such a message has been answered and the engine is back in its loop
C13_Witness ==
    /\ pc = "console"
    /\ conn.state = "ICP_PHASE1"
    /\ conn.protocol = "OLD"
    /\ conn.icp_link = IcpLink
    /\ conn.got_str = 0
    /\ Len(sent) = 1
    /\ sent[1].dg.data.op = NCP_STR
    /\ sent[1].dg.data.args = <<V32(OLD_TELNET), IcpRemote, 32>>

\* What the spec requires of the sockets and links of an established connection
DataSocketsOk(c) ==
    c.state = "ESTABLISHED" =>
       /\ \A x \in {c.data_recv_local, c.data_send_local, c.data_recv_remote, c.data_send_remote} :
             x # Zero32 /\ x # c.listen_socket /\ x # c.icp_remote_socket
       /\ c.data_send_link # 0
       /\ c.data_recv_link # 0

\* Remote sockets and link a client may put in its phase-2 STR and RTS
ClientSockets(c) == {Zero32, c.listen_socket, c.icp_remote_socket, Add32(c.icp_remote_socket, 2)}
ClientLinks      == {0, ClientLink}

\* C14: in every reachable state, and in the state any phase-2 STR and RTS
\* naming data_recv_local and data_send_local lead to from ICP_PHASE2,
\* whatever remote sockets and link they carry: if the connection is
\* ESTABLISHED its four data sockets and two links are non-zero and no data
\* socket equals listen_socket or icp_remote_socket.
C14_DataSockets ==
    /\ DataSocketsOk(conn)
    /\ (pc = "imp" /\ conn.state = "ICP_PHASE2") =>
          \A rs \in ClientSockets(conn), rr \in ClientSockets(conn), l \in ClientLinks :
             DataSocketsOk(Then(Then(Machine(TRUE), STRb(rs, conn.data_recv_local, 8)),
                                RTSb(rr, conn.data_send_local, l)).conn)

----------------------------------------------------------------------------
(* The event loop with RESET leaders among the inbound messages *)

\* An IMP RESET leader: only the low four bits of the first byte are the type
ResetTypes == {IMP_RESET, 16 + IMP_RESET}
ResetLeader(t, src, link, seq) == Frame(seq, FLAG_READY, Padded(<<t, src, link, 0>>))

HandleReset ==
    \E x \in LeaderInputs :
        /\ pc = "imp"
        /\ ReceiveDatagram(DatagramFor(x, imp.rx_sequence), TRUE)

ResetNext == Startup \/ HandleImp \/ HandleReset \/ HandleConsoleInput \/ PeriodicTasks

ResetSpec == Init /\ [][ResetNext]_vars

IsNop(e) == e.dg.n = 16 /\ e.dg.data.type = IMP_NOP /\ e.dg.data.op = -1

\* C15: a RESET leader, whatever its host, link and upper type bits, makes
\* handle_imp send exactly three datagrams, each an IMP NOP, with consecutive
\* sequence numbers, before the handler returns to the loop; nothing is
\* written to the console and the connection is left as it was.
C15_ResetNops ==
    pc = "imp" =>
       \A t \in ResetTypes, src \in {0, PeerHost}, link \in {0, ClientLink} :
          LET s == ImpStep(ResetLeader(t, src, link, imp.rx_sequence), TRUE)
          IN  /\ s.pc = "console"
              /\ Len(s.m.sent) = 3
              /\ \A k \in 1 .. 3 : IsNop(s.m.sent[k])
                                   /\ SeqOf(s.m.sent[k]) = Add32(imp.tx_sequence, k - 1)
              /\ s.m.wrote = << >>
              /\ s.m.conn = conn
              /\ s.m.open_fds = open_fds

\* A RESET has been answered while a connection was established
C15_Witness ==
    /\ pc = "console"
    /\ conn.state = "ESTABLISHED"
    /\ Len(sent) = 3
    /\ \A k \in 1 .. 3 : IsNop(sent[k])
    /\ rx.length = 0

\* C16: when the handler of a RESET has returned (its three NOPs are the
\* datagrams of the step), tx_sequence and rx_sequence are 0 and the
\* connection is LISTENING.
C16_ResetState ==
    (pc = "console" /\ Len(sent) = 3 /\ \A k \in 1 .. 3 : IsNop(sent[k])) =>
       /\ imp.tx_sequence = Zero32
       /\ imp.rx_sequence = Zero32
       /\ conn.state = "LISTENING"

----------------------------------------------------------------------------
(* The event loop with its scheduling: select() returns within one second, *)
(* so an iteration that is not inside a handler reaches time_tick++ and     *)
(* periodic_tasks.  Inbound traffic may stop at any moment, and a message   *)
(* may arrive in fragments.                                                 *)

TimerArmed == conn.console_login_time > 0 \/ conn.console_close_time > 0

\* Inbound messages stop once MaxTick is reached
LiveImp ==
    /\ time_tick < MaxTick
    /\ HandleImp

\* The first datagram of a message arrives without LAST: imp_receive_message
\* goes back to the label loop and calls read() on the blocking socket
FirstFragments == { Control(PeerHost, << <<NCP_NOP>> >>) }

LiveFragment ==
    \E x \in FirstFragments :
        /\ pc = "imp"
        /\ time_tick < MaxTick
        /\ ReceiveDatagram(ClearLast(DatagramFor(x, imp.rx_sequence)), TRUE)

\* read() returns in imp_receive_message when a further datagram arrives
LiveMore ==
    /\ pc = "frag"
    /\ \E up \in ConsoleOutcomes(conn) : ReceiveDatagram(Frame(imp.rx_sequence, FLAG_READY, << >>), up)

\* time_tick++; periodic_tasks (); the clock is followed past MaxTick while a
\* timer is armed
LiveTick ==
    /\ pc \in {"imp", "console", "tick"}
    /\ time_tick < MaxTick \/ TimerArmed
    /\ \E m \in {periodic_tasks([Machine(TRUE) EXCEPT !.time_tick = @ + 1])} :
           /\ Commit(m)
           /\ sel_fd' = m.conn.console_fd
    /\ pc' = "imp"
    /\ UNCHANGED rx

LiveNext == Startup \/ LiveImp \/ LiveFragment \/ LiveMore \/ HandleConsoleInput \/ LiveTick

LiveSpec == Init /\ [][LiveNext]_vars /\ WF_vars(Startup) /\ WF_vars(LiveTick)

\* C17: an armed login timer is eventually disarmed by its firing, and so is
\* an armed close timer, in every run of the event loop: whatever the inbound
\* traffic, including a datagram without LAST followed by no other.
C17_TimersFire ==
    /\ (conn.console_login_time > 0) ~> (conn.console_login_time = 0)
    /\ (conn.console_close_time > 0) ~> (conn.console_close_time = 0)

----------------------------------------------------------------------------
(* Allocation of data sockets *)

\* The message by which handle_all announces the socket it has just assigned
\* to data_socket
IsSocketNumber(e) ==
    /\ e.dg.n > 12
    /\ e.dg.data.type = IMP_REGULAR
    /\ e.dg.data.op = -1
    /\ e.dg.data.bytesize = 32

Even32(x) == x[2] % 2 = 0

\* C18: data_socket changes only in a step that assigns it in handle_all; the
\* value assigned is even, is 100 for the first assignment and the previous
\* value plus 2 afterwards, and is strictly greater than the value it
\* replaces, hence than every value assigned before.
C18_Step ==
    /\ conn'.data_socket # conn.data_socket =>
          \E k \in 1 .. Len(sent') : /\ IsSocketNumber(sent'[k])
                                     /\ sent'[k].dg.data.args = <<conn'.data_socket>>
    /\ \A k \in 1 .. Len(sent') :
          IsSocketNumber(sent'[k]) =>
             LET v == sent'[k].dg.data.args[1]
             IN  /\ v = conn'.data_socket
                 /\ Even32(v)
                 /\ Lt32(conn.data_socket, v)
                 /\ v = IF conn.data_socket = Zero32 THEN V32(FirstDataSocket)
                        ELSE Add32(conn.data_socket, 2)

C18_DataSocketIncreasing == [][C18_Step]_vars

\* The third connection of a run has been given its data socket
C18_Witness ==
    /\ conn.state = "ICP_PHASE2"
    /\ conn.data_socket = V32(FirstDataSocket + 4)
    /\ next_data_socket = V32(FirstDataSocket + 6)
    /\ \E k \in 1 .. Len(sent) : IsSocketNumber(sent[k]) /\ sent[k].dg.data.args = <<conn.data_socket>>

----------------------------------------------------------------------------
(* The monitor as a state machine: main() of ncp.c (bbn-ncc) *)

MaxPackets == 3     \* messages the monitor receives in a run

\* An inbound message as the IMP sends it: nine leader bytes (type, source,
\* link, ..., byte 5, ...), the payload, and a zero byte where needed to fill
\* the last 16-bit word
NccMessage(type, source, link, leader5, payload) ==
    LET b == <<type, source, link, 0, 0, leader5, 0, 0, 0>> \o payload
    IN  IF Len(b) % 2 = 1 THEN b \o <<0>> ELSE b

\* A payload of len bytes with the given words 1, 3 and 4, zero elsewhere
NccPayload(len, w1, w3, w4) ==
    [k \in 1 .. len |-> IF k = 1 THEN w1 \div 256 ELSE IF k = 2 THEN w1 % 256
                        ELSE IF k = 5 THEN w3 \div 256 ELSE IF k = 6 THEN w3 % 256
                        ELSE IF k = 7 THEN w4 \div 256 ELSE IF k = 8 THEN w4 % 256
                        ELSE 0]

Octal301 == 193
Octal302 == 194
Octal303 == 195
Octal304 == 196

\* 1976 Status: 72 bytes, word 3 = 0o304
Status1976(source, w4) == NccMessage(IMP_REGULAR, source, 0, 0, NccPayload(72, source, Octal304, w4))
\* 1976 Throughput: 118 bytes, word 3 = 0o302
Throughput1976(source) == NccMessage(IMP_REGULAR, source, 0, 0, NccPayload(118, source, Octal302, 0))
\* 1973 messages as the spec describes them: type code in the first word
Trouble1973(source, leader5) ==
    NccMessage(IMP_REGULAR, source, 0, leader5, NccPayload(64, Octal301, 0, 0))
Throughput1973(source, leader5) ==
    NccMessage(IMP_REGULAR, source, 0, leader5, NccPayload(106, Octal302, 0, 0))
\* 1973 messages as process_regular tells them: leader byte 5 and 59 or 101 bytes
Leader303(source) == NccMessage(IMP_REGULAR, source, 0, Octal303, NccPayload(59, 0, 0, 0))
Leader302(source) == NccMessage(IMP_REGULAR, source, 0, Octal302, NccPayload(101, 7, 0, 0))

MonitorSources == {1, 2, 3}

MonitorInputs ==
    { Status1976(h, 4095) : h \in MonitorSources }
    \cup { Leader303(h) : h \in MonitorSources }
    \cup { Leader302(1), Throughput1976(2), Trouble1973(1, 0), Throughput1973(2, 0),
           NccMessage(IMP_REGULAR, 3, 0, 0, NccPayload(11, 0, 0, 0)),
           NccMessage(IMP_REGULAR, 1, 5, 0, <<65, 66, 67>>),
           <<IMP_RFNM, 1, 0, 0>> }

\* imp_receive_message (packet, &n); if (n > 0) process_imp (packet, n);
\* ms holds the statics of imp.c and stats; d is a datagram with LAST set
MonitorDeliver(ms, d) ==
    LET res == imp_receive_pass(ms.imp, RxStart, d)
    IN  [imp   |-> res.imp,
         stats |-> IF res.r.length > 0 THEN process_imp(ms.stats, res.r.data, res.r.length)
                   ELSE ms.stats]

\* The IMP frames message b with the sequence number the monitor expects
MonitorSend(ms, b) == MonitorDeliver(ms, Frame(ms.imp.rx_sequence, FLAG_READY, b))

Monitor == [imp |-> imp, stats |-> stats]

\* main() of the monitor up to its loop: imp_init, imp_host_ready (1)
MonitorStartup ==
    /\ pc = "start"
    /\ FramerCommit(imp_host_ready(Machine(TRUE), TRUE))
    /\ pc' = "imp"
    /\ UNCHANGED rx

MonitorReceive ==
    \E b \in MonitorInputs :
        /\ pc = "imp"
        /\ stats.total_packets < MaxPackets
        /\ \E ms \in {MonitorSend(Monitor, b)} :
               imp' = ms.imp /\ stats' = ms.stats
        /\ sent' = << >>
        /\ UNCHANGED <<conn, time_tick, next_data_socket, open_fds, pc, sel_fd, rx, wrote>>

MonitorNext == MonitorStartup \/ MonitorReceive

MonitorSpec == Init /\ [][MonitorNext]_vars

ProbeSources == {1, 3, 65, 255}
ProbeWords   == {0, 2047, 2053, 65535}

\* C19: a link-0 REGULAR message with a 72-byte payload whose word 3 is 0o304,
\* from any source and with any word 4, leaves the slot source mod 64 with
\* has_status = 1, status_reports one higher than before and
\* last_status.banom equal to word 4 modulo 2048.
C19_StatusStored ==
    pc = "imp" =>
       \A h \in ProbeSources, w4 \in ProbeWords :
          LET st == MonitorSend(Monitor, Status1976(h, w4)).stats
              k  == h % ImpSlots
          IN  /\ Slot(st, k).has_status = 1
              /\ Slot(st, k).status_reports = Slot(stats, k).status_reports + 1
              /\ Slot(st, k).last_status.banom = w4 % 2048

Reports(st, k) == Slot(st, k).status_reports + Slot(st, k).throughput_reports

LeaderBytes == {0, Octal301, Octal302, Octal303}

\* C20: a message with first payload word 0o301 and 64 bytes, one with first
\* word 0o302 and 106 bytes and one with word 3 = 0o304 and 72 bytes, from
\* three different IMPs in succession, each add one report to the slot of
\* their own IMP, leave three different record types in the three slots, and
\* none of them is counted in unknown_messages.
C20_Dispatch ==
    pc = "imp" =>
       \A a \in MonitorSources, b \in MonitorSources, c \in MonitorSources, l \in LeaderBytes :
          (a # b /\ b # c /\ a # c) =>
             LET m1 == MonitorSend(Monitor, Trouble1973(a, l))
                 m2 == MonitorSend(m1, Throughput1973(b, l))
                 st == MonitorSend(m2, Status1976(c, 0)).stats
             IN  /\ \A k \in {a, b, c} :
                       /\ Reports(st, k) = Reports(stats, k) + 1
                       /\ Slot(st, k).unknown_messages = Slot(stats, k).unknown_messages
                 /\ Slot(st, a).msg_type # Slot(st, b).msg_type
                 /\ Slot(st, b).msg_type # Slot(st, c).msg_type
                 /\ Slot(st, a).msg_type # Slot(st, c).msg_type

----------------------------------------------------------------------------
(* Data towards the client *)

\* C21: every data message of a step was handed to imp_send_message while
\* conn.state was ESTABLISHED, and so is every data message a console read
\* of any size would produce in the current state when the console
\* descriptor is the one select() watched.
C21_DataOnlyEstablished ==
    /\ \A k \in 1 .. Len(sent) : IsData(sent[k]) => sent[k].state = "ESTABLISHED"
    /\ (pc \in {"imp", "console"} /\ conn.console_fd >= 0 /\ conn.console_fd = sel_fd) =>
          \A n \in ProbeReads :
             LET m == handle_console_input(Machine(TRUE), n)
             IN  \A k \in 1 .. Len(m.sent) : IsData(m.sent[k]) => m.sent[k].state = "ESTABLISHED"

\* A console read has been sent on as a data message
C21_Witness ==
    /\ pc = "tick"
    /\ conn.state = "ESTABLISHED"
    /\ Len(sent) = 1
    /\ IsData(sent[1])
    /\ sent[1].state = "ESTABLISHED"
    /\ sent[1].dg.data.count = 60

----------------------------------------------------------------------------
(* The login delay *)

\* The writes of "login\r" among ws
LoginWrites(ws) == { k \in 1 .. Len(ws) : ws[k].bytes = Login }

\* The ALL messages among ss
AllsSent(ss) == { k \in 1 .. Len(ss) : ss[k].dg.data.op = NCP_ALL }

InitialAll(host, link) == Packet(IMP_REGULAR, host, 0, 8, 8, NCP_ALL, <<link, 10, V32(16000)>>)

ReadResults == {-1, 0} \cup ProbeReads

\* While the login timer is armed it is armed for the next periodic check, and
\* handle_console_input leaves the engine as it is whatever read() returned
C22_Discard ==
    conn.console_login_time > 0 =>
       /\ conn.console_login_time = time_tick + LoginDelay
       /\ \A n \in ReadResults :
             handle_console_input(Machine(TRUE), n) = Machine(TRUE)

\* A step that enters ESTABLISHED arms the login timer for the next tick; the
\* periodic check that finds the timer armed and due writes "login\r" once,
\* to the open console, sends one ALL (data_recv_link, 10, 16000) to
\* remote_host and disarms the timer; no other step writes the prompt, and no
\* other periodic check sends an ALL.
C22_Step ==
    LET check == time_tick' # time_tick
        fires == /\ check
                 /\ conn.console_login_time > 0
                 /\ time_tick' >= conn.console_login_time
    IN  /\ (conn.state # "ESTABLISHED" /\ conn'.state = "ESTABLISHED") =>
              /\ conn'.console_login_time = time_tick + LoginDelay
              /\ conn'.console_fd >= 0
        /\ fires =>
              /\ Cardinality(LoginWrites(wrote')) = 1
              /\ \A k \in LoginWrites(wrote') :
                    wrote'[k].fd = conn.console_fd /\ conn.console_fd >= 0
              /\ Cardinality(AllsSent(sent')) = 1
              /\ \A k \in AllsSent(sent') :
                    sent'[k].dg.data = InitialAll(conn.remote_host, conn.data_recv_link)
              /\ conn'.console_login_time = 0
        /\ ~fires => LoginWrites(wrote') = {}
        /\ (check /\ ~fires) => AllsSent(sent') = {}

\* C22: after the connection becomes ESTABLISHED at tick T the login prompt is
\* written to the console and the initial ALL (data_recv_link, 10 messages,
\* 16000 bits) is sent exactly once, by the periodic check of tick T+1 and not
\* before, and every console read in between is discarded.
C22_LoginOnce == []C22_Discard /\ [][C22_Step]_vars

\* The login timer has just fired on an established connection
C22_Witness ==
    /\ pc = "imp"
    /\ conn.state = "ESTABLISHED"
    /\ conn.console_login_time = 0
    /\ wrote = << [fd |-> conn.console_fd, bytes |-> Login] >>
    /\ Len(sent) = 1
    /\ sent[1].dg.data = InitialAll(conn.remote_host, conn.data_recv_link)

----------------------------------------------------------------------------
(* Data from the client *)

DataLinks  == {1, IcpLink, ClientLink, SendLink, 255}
DataBodies == { << >>, <<65>>, <<65, 13, 10>>, <<IAC, DO, 1>> }

\* The machine after handle_imp has taken, in the current state, a REGULAR
\* message from host h on link l carrying body
FeedData(h, l, body) == ImpStep(DatagramFor(In("data", h, l, <<body>>), imp.rx_sequence), TRUE).m

\* C23: in ESTABLISHED a REGULAR message on a non-zero link equal to
\* data_recv_link is answered with exactly one ALL, sent last, on
\* data_recv_link (10 messages, 16000 bits) to remote_host; a message on any
\* other non-zero link, or in any other state, writes nothing to the console,
\* sends nothing and leaves the connection as it was.
C23_DataAnswered ==
    pc = "imp" =>
      \A h \in Hosts, l \in (DataLinks \cup {conn.data_recv_link}) \ {0}, body \in DataBodies :
         LET m == FeedData(h, l, body)
         IN  IF conn.state = "ESTABLISHED" /\ l = conn.data_recv_link
             THEN /\ Cardinality(AllsSent(m.sent)) = 1
                  /\ AllsSent(m.sent) = {Len(m.sent)}
                  /\ m.sent[Len(m.sent)].dg.data = InitialAll(conn.remote_host, conn.data_recv_link)
             ELSE /\ m.wrote = << >>
                  /\ m.sent = << >>
                  /\ m.conn = conn

\* A byte from the client has gone to the console and has been answered with an ALL
C23_Witness ==
    /\ pc = "console"
    /\ conn.state = "ESTABLISHED"
    /\ conn.data_recv_link = ClientLink
    /\ wrote = << [fd |-> conn.console_fd, bytes |-> <<65>>] >>
    /\ Len(sent) = 1
    /\ sent[1].dg.data = InitialAll(PeerHost, ClientLink)

----------------------------------------------------------------------------
(* The engine with a peer that also sends the NCP service opcodes RST and ECO *)

EchoBytes == {0, 65}

ServiceMessages == { <<NCP_RST>> } \cup { ECOb(d) : d \in EchoBytes }

HandleService ==
    \E h \in Hosts, op \in ServiceMessages :
        /\ pc = "imp"
        /\ ReceiveDatagram(DatagramFor(Control(h, <<op>>), imp.rx_sequence), TRUE)

ServiceNext == Startup \/ HandleImp \/ HandleService \/ HandleConsoleInput \/ PeriodicTasks

ServiceSpec == Init /\ [][ServiceNext]_vars

\* C24: in every connection state a control message holding RST, alone or
\* next to NOPs, makes the engine send exactly one message, an RRP to the
\* source host, and changes nothing of the connection (state, sockets, links,
\* flags, send_allocation, output buffer, timers), of time_tick, of
\* next_data_socket or of the console.
C24_RstAnswered ==
    pc = "imp" =>
       \A h \in Hosts, ops \in { <<<<NCP_RST>>>>, <<<<NCP_NOP>>, <<NCP_RST>>>>, <<<<NCP_RST>>, <<NCP_NOP>>>> } :
          LET m == FeedAll(h, ops, TRUE)
          IN  /\ Len(m.sent) = 1
              /\ m.sent[1].dg.data = Packet(IMP_REGULAR, h, 0, 8, 1, NCP_RRP, << >>)
              /\ m.conn = conn
              /\ m.time_tick = time_tick
              /\ m.next_data_socket = next_data_socket
              /\ m.open_fds = open_fds
              /\ m.wrote = << >>

\* An RST has been answered on an established connection with console
\* output waiting in the buffer
C24_Witness ==
    /\ pc = "console"
    /\ conn.state = "ESTABLISHED"
    /\ conn.output_buffer_len > 0
    /\ Len(sent) = 1
    /\ sent[1].dg.data = Packet(IMP_REGULAR, OtherHost, 0, 8, 1, NCP_RRP, << >>)

\* The ERP messages among ss
ErpsSent(ss) == { k \in 1 .. Len(ss) : ss[k].dg.data.op = NCP_ERP }

\* C25: a control message holding ECO with data byte d makes the engine send
\* exactly one ERP, to the source host, carrying d.
C25_EchoReplied ==
    pc = "imp" =>
       \A h \in Hosts, d \in EchoBytes :
          LET m == Feed(h, ECOb(d), TRUE)
          IN  /\ Cardinality(ErpsSent(m.sent)) = 1
              /\ \A k \in ErpsSent(m.sent) :
                    /\ m.sent[k].dg.data.type = IMP_REGULAR
                    /\ m.sent[k].dg.data.host = h
                    /\ m.sent[k].dg.data.link = 0
                    /\ m.sent[k].dg.data.args = <<d>>

----------------------------------------------------------------------------
(* The CLS that ends the ICP *)

\* C26: in ICP_PHASE2 a CLS whose local socket is the listen socket, whatever
\* its remote socket and source, sends nothing, writes nothing to the console
\* and leaves the connection (state, got_str, got_rts, data sockets, links,
\* timers), time_tick, next_data_socket and the open descriptors as they were.
C26_IcpClsIgnored ==
    (pc = "imp" /\ conn.state = "ICP_PHASE2") =>
       \A h \in Hosts, rs \in ProbeSockets \cup {conn.icp_remote_socket, conn.data_send_remote} :
          LET m == Feed(h, CLSb(rs, conn.listen_socket), TRUE)
          IN  /\ m.sent = << >>
              /\ m.wrote = << >>
              /\ m.conn = conn
              /\ m.time_tick = time_tick
              /\ m.next_data_socket = next_data_socket
              /\ m.open_fds = open_fds

\* The CLS of the ICP arrives in ICP_PHASE2, after the client's STR for the
\* second connection of the run, and is passed over
C26_Witness ==
    /\ pc = "imp"
    /\ conn.state = "ICP_PHASE2"
    /\ conn.got_str = 1
    /\ conn.data_socket = V32(FirstDataSocket + 2)
    /\ LET m == Feed(PeerHost, IcpCls(conn), TRUE)
       IN  m.conn.state = "ICP_PHASE2" /\ m.conn.got_str = 1 /\ m.sent = << >>

----------------------------------------------------------------------------
(* The console hangs up *)

\* C27: when read() on the console returns 0 or -1 and neither timer is armed,
\* the console descriptor is closed, exactly two messages are sent,
\* CLS(data_send_local, data_send_remote) and CLS(data_recv_local,
\* data_recv_remote) to remote_host, and the state becomes LISTENING; when
\* either timer is armed nothing is closed, sent or written and the connection
\* is left as it was.
C27_ConsoleEof ==
    (pc # "start" /\ conn.console_fd >= 0) =>
       \A n \in {-1, 0} :
          LET m == handle_console_input(Machine(TRUE), n)
          IN  IF conn.console_close_time = 0 /\ conn.console_login_time = 0
              THEN /\ m.conn.console_fd = -1
                   /\ m.open_fds = open_fds \ {conn.console_fd}
                   /\ Len(m.sent) = 2
                   /\ m.sent[1].dg.data = Packet(IMP_REGULAR, conn.remote_host, 0, 8, 9, NCP_CLS,
                                                 <<conn.data_send_local, conn.data_send_remote>>)
                   /\ m.sent[2].dg.data = Packet(IMP_REGULAR, conn.remote_host, 0, 8, 9, NCP_CLS,
                                                 <<conn.data_recv_local, conn.data_recv_remote>>)
                   /\ m.conn.state = "LISTENING"
                   /\ m.wrote = << >>
              ELSE /\ m.sent = << >>
                   /\ m.wrote = << >>
                   /\ m.conn = conn
                   /\ m.open_fds = open_fds

\* The console has hung up on an established connection
C27_Witness ==
    /\ pc = "tick"
    /\ conn.state = "LISTENING"
    /\ conn.console_fd = -1
    /\ conn.console_close_time = 0
    /\ open_fds = {}
    /\ Len(sent) = 2
    /\ sent[1].dg.data.op = NCP_CLS /\ sent[1].state = "ESTABLISHED"
    /\ sent[2].dg.data.args = <<conn.data_recv_local, conn.data_recv_remote>>

----------------------------------------------------------------------------
(* The console refuses the connection *)

\* The control message ops completes phase 2 in the current state: with a
\* console that accepts, the step opens a console connection
Completes(ops) == FeedAll(PeerHost, ops, TRUE).open_fds # open_fds

\* The periodic check of the tick after machine m
NextCheck(m) == periodic_tasks([m EXCEPT !.time_tick = @ + 1, !.sent = << >>, !.wrote = << >>])

\* C28: when connect_to_console fails in the step that completes phase 2, the
\* step sends exactly two messages, CLS(data_send_local, data_send_remote) and
\* CLS(data_recv_local, data_recv_remote), and ends in LISTENING with no
\* console descriptor open and with neither the login timer nor the close
\* timer armed, and the next periodic check writes no login prompt and sends
\* no ALL.
C28_ConsoleRefused ==
    pc = "imp" =>
       \A ops \in ControlMessages(conn, next_data_socket) :
          Completes(ops) =>
             LET m == FeedAll(PeerHost, ops, FALSE)
                 c == m.conn
             IN  /\ { m.sent[k].dg.data : k \in { j \in 1 .. Len(m.sent) : m.sent[j].dg.data.op = NCP_CLS
                                                                            /\ m.sent[j].state = "ESTABLISHED" } }
                      = { Packet(IMP_REGULAR, c.remote_host, 0, 8, 9, NCP_CLS,
                                 <<c.data_send_local, c.data_send_remote>>),
                          Packet(IMP_REGULAR, c.remote_host, 0, 8, 9, NCP_CLS,
                                 <<c.data_recv_local, c.data_recv_remote>>) }
                 /\ Cardinality({ j \in 1 .. Len(m.sent) : m.sent[j].state = "ESTABLISHED" }) = 2
                 /\ c.state = "LISTENING"
                 /\ c.console_fd = -1
                 /\ m.open_fds = {}
                 /\ c.console_login_time = 0
                 /\ c.console_close_time = 0
                 /\ LoginWrites(NextCheck(m).wrote) = {}
                 /\ AllsSent(NextCheck(m).sent) = {}

----------------------------------------------------------------------------
(* The output buffer filling up: one connection whose console has output    *)
(* ready at every pass of the loop while the client grants no allocation    *)

MaxFillTick == 81    \* passes of the main loop in a run that fills the buffer

NearlyFull(c) == c.output_buffer_len >= OutputBufferSize - 2 * MaxDataMessage

FillReads(c) == IF NearlyFull(c) THEN {1, 59, MaxDataMessage} ELSE {MaxDataMessage}

FillHandshake ==
    /\ pc = "imp"
    /\ conn.state = "LISTENING"
    /\ ReceiveDatagram(DatagramFor(Control(PeerHost,
                                           << ListenRts(OLD_TELNET), IcpAll,
                                              DataStr(next_data_socket),
                                              DataRts(Add32(next_data_socket, 1)) >>),
                                   imp.rx_sequence), TRUE)

\* The client grants allocation only once the buffer is nearly full
FillAll ==
    \E k \in {1, 2} :
        /\ pc = "imp"
        /\ conn.state = "ESTABLISHED"
        /\ NearlyFull(conn)
        /\ ReceiveDatagram(DatagramFor(Control(PeerHost, <<ALLb(SendLink, k, 8000)>>),
                                       imp.rx_sequence), TRUE)

\* The client closes the connection with the buffer nearly full
FillCls ==
    /\ pc = "imp"
    /\ conn.state = "ESTABLISHED"
    /\ NearlyFull(conn)
    /\ ReceiveDatagram(DatagramFor(Control(PeerHost, <<DataCls(conn)>>), imp.rx_sequence), TRUE)

FillRead == \E n \in FillReads(conn) : ConsoleInput(n)

\* time_tick++; periodic_tasks (); and the next select(), after the pass has
\* handled a message or a console read, or at any time once the buffer is
\* nearly full
FillTick ==
    /\ pc \in {"console", "tick"} \/ (pc = "imp" /\ NearlyFull(conn) /\ conn.state # "LISTENING")
    /\ time_tick < MaxFillTick
    /\ \E m \in {periodic_tasks([Machine(TRUE) EXCEPT !.time_tick = @ + 1])} :
           /\ Commit(m)
           /\ sel_fd' = m.conn.console_fd
    /\ pc' = "imp"
    /\ UNCHANGED rx

FillNext == Startup \/ FillHandshake \/ FillAll \/ FillCls \/ FillRead \/ FillTick

FillSpec == Init /\ [][FillNext]_vars

\* Two lists of runs put end to end, the pieces of one read that meet joined
JoinPair(a, b) ==
    IF a = << >> \/ b = << >> THEN a \o b
    ELSE LET x == a[Len(a)]
             y == b[1]
         IN  IF x.t = y.t /\ x.off + x.n = y.off
             THEN SubSeq(a, 1, Len(a) - 1) \o << [x EXCEPT !.n = @ + y.n] >> \o Tail(b)
             ELSE a \o b

\* Runs with adjacent pieces of the same read joined
RECURSIVE RunsJoin(_)
RunsJoin(b) ==
    IF Len(b) < 2 THEN b
    ELSE LET h == Len(b) \div 2
         IN  JoinPair(RunsJoin(SubSeq(b, 1, h)), RunsJoin(SubSeq(b, h + 1, Len(b))))

\* The number of bytes in a list of runs
RECURSIVE RunsTotal(_)
RunsTotal(b) ==
    IF b = << >> THEN 0
    ELSE IF Len(b) = 1 THEN b[1].n
    ELSE LET h == Len(b) \div 2
         IN  RunsTotal(SubSeq(b, 1, h)) + RunsTotal(SubSeq(b, h + 1, Len(b)))

\* The console bytes carried by the data messages among ss, in order
RECURSIVE DataRuns(_)
DataRuns(ss) ==
    IF ss = << >> THEN << >>
    ELSE (IF IsData(ss[1]) THEN ss[1].dg.data.args ELSE << >>) \o DataRuns(Tail(ss))

ReadRun(t, n) == [t |-> t, off |-> 0, n |-> n]

\* output_buffer_len is within the buffer and is the number of bytes held; in
\* ESTABLISHED with no timer armed a console read that does not fit is dropped
\* whole, sending nothing and leaving the connection as it was, and one that
\* fits is kept whole: its bytes follow the buffered ones, and what is not
\* sent at once is what the buffer holds afterwards
C29_Reads ==
    /\ conn.output_buffer_len >= 0
    /\ conn.output_buffer_len <= OutputBufferSize
    /\ conn.output_buffer_len = RunsTotal(conn.output_buffer)
    /\ (/\ pc # "start"
        /\ conn.state = "ESTABLISHED"
        /\ conn.console_close_time = 0 /\ conn.console_login_time = 0) =>
          \A n \in ProbeReads :
             LET m == handle_console_input(Machine(TRUE), n)
             IN  IF conn.output_buffer_len + n > OutputBufferSize
                 THEN /\ m.conn = conn
                      /\ m.sent = << >>
                 ELSE /\ RunsJoin(DataRuns(m.sent) \o m.conn.output_buffer)
                           = RunsJoin(Append(conn.output_buffer, ReadRun(time_tick, n)))
                      /\ m.conn.output_buffer_len + RunsTotal(DataRuns(m.sent))
                           = conn.output_buffer_len + n

\* No step of the event loop takes bytes out of the buffer other than into
\* data messages: what was buffered, followed by what the step may have read,
\* is what the step sent followed by what is buffered after it
C29_Step ==
    \E r \in { << >> } \cup { << ReadRun(time_tick, n) >> : n \in ProbeReads } :
        RunsJoin(conn.output_buffer \o r) = RunsJoin(DataRuns(sent') \o conn'.output_buffer)

\* C29: in every reachable state 0 <= output_buffer_len <= 8000; a console
\* read of n bytes with output_buffer_len + n > 8000 is dropped as a whole,
\* leaving buffer content and length unchanged, and no console byte read in
\* ESTABLISHED outside the delay periods is lost in any other way.
C29_BufferBounded == []C29_Reads /\ [][C29_Step]_vars

\* A console read has just been dropped for want of room: the buffer holds
\* more than 7900 bytes and nothing read at this tick
C29_Witness ==
    /\ pc = "tick"
    /\ conn.state = "ESTABLISHED"
    /\ conn.console_close_time = 0 /\ conn.console_login_time = 0
    /\ conn.output_buffer_len > OutputBufferSize - MaxDataMessage
    /\ conn.output_buffer_len < OutputBufferSize
    /\ conn.output_buffer[Len(conn.output_buffer)].t < time_tick
    /\ sent = << >>

----------------------------------------------------------------------------
(* Faulty datagrams *)

\* Datagrams cut short: less than the 12 bytes of the header
ShortFrames == { Take(Frame(V32(3), 0, <<7, 7>>), k) : k \in {1, 4, 11} }

\* The framer-level faults of datagram d for a framer expecting rx_sequence
BadMagic(d)    == Take(d, 4) # Magic
TooShort(d)    == Len(d) < 12
BadLength(d)   == Len(d) # 10 + 2 * (At(d, 8) * 256 + At(d, 9))
Regressed(d)   == Word32(From(d, 4)) # Zero32 /\ Lt32(Word32(From(d, 4)), imp.rx_sequence)
Faulty(d)      == BadMagic(d) \/ TooShort(d) \/ BadLength(d) \/ Regressed(d)

\* C30: a datagram with a framer-level fault (magic other than H316, fewer
\* than 12 bytes, byte count different from 10 + 2 x word count, regressed
\* sequence number) is dropped: the call goes on without a fault of its own,
\* none of the datagram's bytes reach the caller's buffer and the delivered
\* length does not grow.
C30_FaultsDropped ==
    pc \in {"imp", "frag"} =>
       \A d \in (FramerInputs \cup ShortFrames) \ { << >> } :
          Faulty(d) =>
             LET prior == IF pc = "frag" THEN rx ELSE RxStart
                 s     == FramerStep(d)
             IN  /\ s.pc # "crashed"
                 /\ s.out.data \in {prior.data, << >>}
                 /\ s.out.length \in {prior.length, 0}

----------------------------------------------------------------------------
(* The peer's HOST-READY bit *)

\* C31: for every accepted datagram of a peer (valid magic, sequence number
\* not regressed), a one-word datagram without payload included, the framer
\* leaves imp_ready equal to the datagram's READY bit and calls
\* imp_imp_ready exactly once, with the new value, when the bit differs from
\* the tracked one, and not at all when it is the same.
C31_ReadyTracked ==
    pc = "imp" =>
       \A seq \in FramerSeqs, fl \in FramerFlags, p \in SomePayloads :
          (seq = Zero32 \/ ~Lt32(seq, imp.rx_sequence)) =>
             LET s == Probe(seq, fl, p, TRUE)
             IN  /\ s.imp.imp_ready = fl
                 /\ s.out.ready = IF fl # imp.imp_ready THEN <<fl>> ELSE << >>

----------------------------------------------------------------------------
(* The monitor's two consumers of link-0 messages *)

\* Messages in slot k tallied by the telemetry path: status, throughput or
\* unknown-type counters
Tallied(st, k) ==
    Slot(st, k).status_reports + Slot(st, k).throughput_reports + Slot(st, k).unknown_messages

\* Link-0 REGULAR messages: the telemetry of the monitor's alphabet and NCP
\* control messages of a host
Link0Messages ==
    { b \in MonitorInputs : At(b, 0) = IMP_REGULAR /\ At(b, 2) = 0 }
    \cup { NccMessage(IMP_REGULAR, h, 0, 0, op) :
              h \in MonitorSources,
              op \in { <<NCP_RST>>, ListenRts(OLD_TELNET), ALLb(SendLink, 1, 8000) } }

\* C32: no link-0 REGULAR message is both tallied by the telemetry path
\* (status, throughput or unknown-type counter of its IMP) and counted in
\* ncp_control_packets.
C32_OneConsumer ==
    pc = "imp" =>
       \A b \in Link0Messages :
          LET st == MonitorSend(Monitor, b).stats
              k  == At(b, 1) % ImpSlots
          IN  ~(/\ Tallied(st, k) > Tallied(stats, k)
                /\ st.ncp_control_packets > stats.ncp_control_packets)

----------------------------------------------------------------------------
(* What a new connection inherits from the one before it *)

\* Machine m with the output of its last step taken away
Quiet(m) == [m EXCEPT !.sent = << >>, !.wrote = << >>]

\* The data messages among ss
DataSent(ss) == { k \in 1 .. Len(ss) : IsData(ss[k]) }

\* C33: a control message that takes the connection into ESTABLISHED leaves
\* send_allocation, output_buffer_len and iac_state at 0; a console read after
\* the login prompt, before the new client has sent an ALL, sends no data
\* message; and the new client's first ALL, with nothing read from the new
\* console yet, sends no data message (no bytes of an earlier connection).
C33_FreshConnection ==
    (pc = "imp" /\ conn.state # "ESTABLISHED") =>
       \A ops \in ControlMessages(conn, next_data_socket) :
          LET m  == FeedAll(PeerHost, ops, TRUE)
              m2 == Quiet(NextCheck(m))
          IN  m.conn.state = "ESTABLISHED" =>
                 /\ m.conn.send_allocation = 0
                 /\ m.conn.output_buffer_len = 0
                 /\ m.conn.iac_state = 0
                 /\ \A n \in ProbeReads :
                       DataSent(handle_console_input(m2, n).sent) = {}
                 /\ DataSent(Then(m2, ALLb(m2.conn.data_send_link, 1, 8000)).sent) = {}

----------------------------------------------------------------------------
(* The close timer and the connection that follows *)

\* An ESTABLISHED connection with neither timer armed has its console open
C34_Open ==
    (conn.state = "ESTABLISHED" /\ conn.console_close_time = 0 /\ conn.console_login_time = 0) =>
       (conn.console_fd >= 0 /\ conn.console_fd \in open_fds)

\* The close timer that fires while a connection is ESTABLISHED leaves that
\* connection its console, still open
C34_Step ==
    (conn.state = "ESTABLISHED" /\ conn.console_close_time > 0 /\ conn'.console_close_time = 0) =>
       (conn'.console_fd = conn.console_fd /\ conn.console_fd \in open_fds')

\* C34: the close timer armed by a CLS closes only the console of the
\* connection that was torn down: when a new connection has reached
\* ESTABLISHED while the timer is armed, its console is still open after the
\* timer fires, and in every reachable state an ESTABLISHED connection with
\* no timer armed has an open console.
C34_TimerOwnConsole == []C34_Open /\ [][C34_Step]_vars

----------------------------------------------------------------------------
(* The login timer of a connection that was closed before it fired *)

\* Outside ESTABLISHED the login timer is not armed
C35_Cancelled == conn.state # "ESTABLISHED" => conn.console_login_time = 0

\* A periodic check that writes the login prompt or sends an ALL finds the
\* connection ESTABLISHED
C35_Step ==
    (/\ time_tick' # time_tick
     /\ LoginWrites(wrote') # {} \/ AllsSent(sent') # {}) => conn.state = "ESTABLISHED"

\* C35: the login prompt and the initial ALL are emitted only for a connection
\* that is still ESTABLISHED when the login timer fires: a CLS processed after
\* ESTABLISHED was entered and before the timer fires, a later opcode of the
\* same message included, leaves the timer cancelled, and no periodic check
\* writes the prompt or sends an ALL while the state is LISTENING.
C35_LoginOnlyEstablished == []C35_Cancelled /\ [][C35_Step]_vars

----------------------------------------------------------------------------
(* The CLS of the ICP connection arriving late *)

\* The CLS messages among ss
ClsSent(ss) == { k \in 1 .. Len(ss) : ss[k].dg.data.op = NCP_CLS }

\* C36: a CLS naming the listen socket, taken in ICP_PHASE2 or in ESTABLISHED,
\* does not tear down the data connection: the state is as before, no CLS is
\* sent and the close timer is as it was.
C36_ListenClsHarmless ==
    (pc = "imp" /\ conn.state \in {"ICP_PHASE2", "ESTABLISHED"}) =>
       LET m == Feed(conn.remote_host, IcpCls(conn), TRUE)
       IN  /\ m.conn.state = conn.state
           /\ ClsSent(m.sent) = {}
           /\ m.conn.console_close_time = conn.console_close_time

----------------------------------------------------------------------------
(* Control messages of a host that is not the client *)

\* C37: in ICP_PHASE1, ICP_PHASE2 and ESTABLISHED a control message (RTS, STR,
\* CLS, ALL) from a host other than remote_host has no effect: the connection
\* record, the console and the open descriptors are as before, and no data
\* message is sent.
C37_ForeignHostIgnored ==
    (pc = "imp" /\ conn.state \in {"ICP_PHASE1", "ICP_PHASE2", "ESTABLISHED"}) =>
       \A h \in Hosts \ {conn.remote_host} :
          \A ops \in ControlMessages(conn, next_data_socket) :
             LET m == FeedAll(h, ops, TRUE)
             IN  /\ m.conn = conn
                 /\ m.wrote = << >>
                 /\ m.open_fds = open_fds
                 /\ DataSent(m.sent) = {}

----------------------------------------------------------------------------
(* The data byte of ECO *)

\* Data bytes a peer may put in an ECO: NOP, CLS, RST as opcodes, and a letter
EchoData == {NCP_NOP, NCP_CLS, NCP_RST, 65}

\* What a step leaves behind, the framer's copy of the leader apart
Effect(m) == [conn |-> m.conn, sent |-> [k \in DOMAIN m.sent |-> m.sent[k].dg.data],
              wrote |-> m.wrote, open_fds |-> m.open_fds,
              next_data_socket |-> m.next_data_socket, time_tick |-> m.time_tick]

\* C38: process_ncp takes ECO together with its data byte: a control message
\* ECO(d), X with X a valid RTS, STR, CLS or ALL has the effect of the message
\* X alone, for every d: d is not read as an opcode (d = 12 sends no RRP,
\* d = 3 tears nothing down).
C38_EcoBodyConsumed ==
    pc = "imp" =>
       \A d \in EchoData, ops \in ControlMessages(conn, next_data_socket) :
          Len(ops) = 1 =>
             Effect(FeedAll(PeerHost, <<ECOb(d)>> \o ops, TRUE)) = Effect(FeedAll(PeerHost, ops, TRUE))

----------------------------------------------------------------------------
(* A second RTS to a listen socket *)

\* C39: an RTS to a listen socket (1 or 23) taken in ICP_PHASE1, ICP_PHASE2 or
\* ESTABLISHED, from any host, with any remote socket and link and whether the
\* console would accept or not, leaves the whole connection record as it was
\* and sends no message (no STR, no refusing CLS); nothing is written to the
\* console and time_tick, next_data_socket and the open descriptors are as
\* before.
C39_ListenRtsIgnored ==
    (pc = "imp" /\ conn.state \in {"ICP_PHASE1", "ICP_PHASE2", "ESTABLISHED"}) =>
       \A h \in Hosts, ls \in {OLD_TELNET, NEW_TELNET}, rs \in ProbeSockets \cup {conn.icp_remote_socket},
          link \in ProbeLinks, up \in BOOLEAN :
          LET m == Feed(h, RTSb(rs, V32(ls), link), up)
          IN  /\ m.conn = conn
              /\ m.sent = << >>
              /\ m.wrote = << >>
              /\ m.time_tick = time_tick
              /\ m.next_data_socket = next_data_socket
              /\ m.open_fds = open_fds

\* The client repeats its RTS to the listen socket on an ESTABLISHED connection
\* whose console is open and holds output waiting for an allocation
C39_Witness ==
    /\ pc = "imp"
    /\ conn.state = "ESTABLISHED"
    /\ conn.console_fd \in open_fds
    /\ conn.output_buffer_len > 0
    /\ LET m == Feed(PeerHost, ListenRts(OLD_TELNET), TRUE)
       IN  m.conn = conn /\ m.sent = << >>

----------------------------------------------------------------------------
(* The monitor's packet counters, over messages of every type *)

\* What the IMP can hand the monitor: the telemetry and traffic of
\* MonitorInputs, the other leader types, and a leader cut to one word
ShortLeader == <<IMP_REGULAR, 1>>

TallyInputs ==
    MonitorInputs \cup { <<IMP_RESET, 0, 0, 0>>, <<IMP_DEAD, 1, 0, 0>>, <<IMP_NOP, 0, 0, 0>>,
                         ShortLeader }

TallyReceive ==
    \E b \in TallyInputs :
        /\ pc = "imp"
        /\ stats.total_packets < MaxPackets
        /\ \E ms \in {MonitorSend(Monitor, b)} :
               imp' = ms.imp /\ stats' = ms.stats
        /\ sent' = << >>
        /\ UNCHANGED <<conn, time_tick, next_data_socket, open_fds, pc, sel_fd, rx, wrote>>

TallyNext == MonitorStartup \/ TallyReceive

TallySpec == Init /\ [][TallyNext]_vars

\* The five per-type counters together
TypeSum(st) ==
    st.regular_packets + st.rfnm_packets + st.reset_packets + st.dead_host_packets
       + st.other_packets

\* Words of the message in the datagram the framer took last: its word count
\* less the flags word
LastLength(i) == At(i.message, 8) * 256 + At(i.message, 9) - 1

\* Every REGULAR message is counted as NCC status or as user data, and the
\* type counters never exceed the total
C40_Split ==
    /\ stats.regular_packets = stats.ncc_status_packets + stats.user_data_packets
    /\ stats.total_packets >= TypeSum(stats)

\* A message received adds one to total_packets, and one to exactly one of the
\* five type counters unless its leader is shorter than two words, when it
\* adds to none
C40_Step ==
    pc = "imp" =>
       /\ stats'.total_packets = stats.total_packets + 1
       /\ TypeSum(stats') = TypeSum(stats) + (IF LastLength(imp') < 2 THEN 0 ELSE 1)
       /\ stats'.regular_packets >= stats.regular_packets
       /\ stats'.rfnm_packets >= stats.rfnm_packets
       /\ stats'.reset_packets >= stats.reset_packets
       /\ stats'.dead_host_packets >= stats.dead_host_packets
       /\ stats'.other_packets >= stats.other_packets

\* C40: the monitor's counters stay consistent: every message adds one to
\* total_packets and one to exactly one type counter (regular, rfnm, reset,
\* dead_host, other), except a message rejected for a leader shorter than two
\* words, which adds to total_packets only, so that total_packets is the sum
\* of the five type counters and the rejected messages; and regular_packets =
\* ncc_status_packets + user_data_packets.
C40_CountersConsistent == []C40_Split /\ [][C40_Step]_vars

\* Three messages counted, one of them rejected for its short leader, one a
\* RESET and one REGULAR user data
C40_Witness ==
    /\ stats.total_packets = 3
    /\ TypeSum(stats) = 2
    /\ stats.reset_packets = 1
    /\ stats.user_data_packets = 1
    /\ stats.regular_packets = 1

====
